---- MODULE Spec2Model ----
(***************************************************************************)
(* Model of the brain-network simulation core:                             *)
(*   src/simulation/network.py      Neuron, Signal, Connection, Region,    *)
(*                                  Network                                *)
(*   src/simulation/learning.py     HebbianLearning, RewardBasedLearning,  *)
(*                                  LearningManager                        *)
(*   src/simulation/central_hub.py  CentralHub                             *)
(*   src/main.py                    websocket_endpoint, broadcast_state,   *)
(*                                  simulation_loop                        *)
(*                                                                         *)
(* Number representation.  activity, potential, threshold and signal       *)
(* strength are fixed-point integers with Scale units per 1.0; connection  *)
(* weights are fixed-point with WScale units per 1.0; a product or a       *)
(* quotient is rounded down to a whole unit.  Signal.progress is the one   *)
(* quantity whose rounding decides a tick count, so it is kept as an       *)
(* IEEE-754 binary64 value: a sign and a magnitude counted in units of     *)
(* 2^-58 (the unit in the last place of the double 0.02), rounded to 53    *)
(* significant bits, ties to even, after every multiplication and          *)
(* addition.  An eligibility trace is m * 2^-e trace units, so that the    *)
(* halving of a binary float is exact, as it is in the program.            *)
(***************************************************************************)
EXTENDS Integers, Sequences, FiniteSets, TLC

VARIABLES
    neurons,           \* neuron id -> Neuron record
    conns,             \* connection id -> Connection record (the objects)
    connections,       \* Network.connections: sequence of connection ids
    total_activity,    \* region id -> Region.total_activity
    total_signals,     \* Network.total_signals
    active_neurons,    \* Network.active_neurons
    algs,              \* algorithm object id -> LearningAlgorithm record
    algorithms,        \* LearningManager.algorithms: name -> object id
    active_algorithm,  \* LearningManager.active_algorithm (None or a name)
    hub,               \* the CentralHub object (NoHub before one is made)
    server,            \* main.py: connections, simulation_state and its tasks
    last,              \* the call that produced this state, with its result
    calls              \* calls made so far: counts, arrivals and fire history

vars == <<neurons, conns, connections, total_activity, total_signals,
          active_neurons, algs, algorithms, active_algorithm, hub, server,
          last, calls>>

----------------------------------------------------------------------------
(* Fixed-point scales *)

Scale == 1000
WScale == 100 * Scale

None == "None"

\* Network.hub when no CentralHub has been constructed
NoHub == [none |-> TRUE]

\* F(x), with x evaluated one time however often F uses it
Once(F(_), x) == CHOOSE r \in {F(v) : v \in {x}} : TRUE

Min(a, b) == IF a <= b THEN a ELSE b
Max(a, b) == IF a >= b THEN a ELSE b

----------------------------------------------------------------------------
(* IEEE-754 binary64 arithmetic on magnitudes of up to 72 bits, kept as    *)
(* three 24-bit limbs <<l0, l1, l2>>, least significant first, in units    *)
(* of 2^-58.                                                               *)

Base == 2^24

BigZero == <<0, 0, 0>>

BigAdd(a, b) ==
    LET s0 == a[1] + b[1]
        s1 == a[2] + b[2] + (s0 \div Base)
        s2 == a[3] + b[3] + (s1 \div Base)
    IN  <<s0 % Base, s1 % Base, s2>>

\* a - b for a >= b
BigSub(a, b) ==
    LET d0 == a[1] - b[1]
        w0 == IF d0 < 0 THEN 1 ELSE 0
        d1 == a[2] - b[2] - w0
        w1 == IF d1 < 0 THEN 1 ELSE 0
        d2 == a[3] - b[3] - w1
    IN  <<d0 + w0 * Base, d1 + w1 * Base, d2>>

BigLess(a, b) ==
    \/ a[3] < b[3]
    \/ a[3] = b[3] /\ a[2] < b[2]
    \/ a[3] = b[3] /\ a[2] = b[2] /\ a[1] < b[1]

\* a * k for a small natural k
BigMulSmall(a, k) ==
    LET p0 == a[1] * k
        p1 == a[2] * k + (p0 \div Base)
        p2 == a[3] * k + (p1 \div Base)
    IN  <<p0 % Base, p1 % Base, p2>>

RECURSIVE BitsOf(_)
BitsOf(x) == IF x = 0 THEN 0 ELSE 1 + BitsOf(x \div 2)

BitLen(a) ==
    IF a[3] > 0 THEN 48 + BitsOf(a[3])
    ELSE IF a[2] > 0 THEN 24 + BitsOf(a[2])
    ELSE BitsOf(a[1])

\* a magnitude with its d low bits rounded away, ties to even
RoundBits(a, d) ==
    IF d <= 0 THEN a
    ELSE LET q    == 2^d
             r    == a[1] % q
             down == BigSub(a, <<r, 0, 0>>)
             odd  == (a[1] \div q) % 2 = 1
         IN  IF 2 * r > q \/ (2 * r = q /\ odd)
             THEN BigAdd(down, <<q, 0, 0>>)
             ELSE down

\* round a magnitude to 53 significant bits, ties to even
RoundTo53(a) == Once(LAMBDA v : RoundBits(v, BitLen(v) - 53), a)

Dbl(neg, mag) == [neg |-> neg /\ mag # BigZero, mag |-> mag]

DblZero == Dbl(FALSE, BigZero)

\* the double nearest to 0.02: 0x1.47ae147ae147bp-6 = 5764607523034235 * 2^-58
DblBaseSpeed == Dbl(FALSE, <<11408507, 8053063, 20>>)

\* the double 1.0 = 2^58 units
DblOne == Dbl(FALSE, <<0, 0, 1024>>)

\* x * k for a double x and an integer-valued double k
DblMulInt(x, k) ==
    LET ak == IF k < 0 THEN 0 - k ELSE k
    IN  Dbl((x.neg /\ k > 0) \/ (~x.neg /\ k < 0),
            RoundTo53(BigMulSmall(x.mag, ak)))

DblAdd(x, y) ==
    IF x.neg = y.neg
    THEN Dbl(x.neg, RoundTo53(BigAdd(x.mag, y.mag)))
    ELSE IF BigLess(x.mag, y.mag)
         THEN Dbl(y.neg, RoundTo53(BigSub(y.mag, x.mag)))
         ELSE Dbl(x.neg, RoundTo53(BigSub(x.mag, y.mag)))

\* x < y
DblLess(x, y) ==
    IF x.neg /\ ~y.neg THEN TRUE
    ELSE IF ~x.neg /\ y.neg THEN FALSE
    ELSE IF x.neg THEN BigLess(y.mag, x.mag)
    ELSE BigLess(x.mag, y.mag)

\* x >= y
DblGE(x, y) == ~DblLess(x, y)

----------------------------------------------------------------------------
(* Neuron (network.py:13-69) *)

FreshNeuron(thr, out, inc) ==
    [activity |-> 0, threshold |-> thr, potential |-> 0, refractory |-> 0,
     outgoing |-> out, incoming |-> inc]

\* receive_input without the refractory gate of network.py:37-38
Neuron_receive_input_ungated(n, amount, weight) ==
    [n EXCEPT !.potential = @ + ((amount * weight) \div WScale)]

\* amount is in Scale units, weight in WScale units
Neuron_receive_input(n, amount, weight) ==
    IF n.refractory > 0
    THEN n
    ELSE [n EXCEPT !.potential = @ + ((amount * weight) \div WScale)]

\* _fire with a refractory period one update shorter
Neuron_fire_short(n) ==
    LET f == [n EXCEPT !.activity = Scale, !.potential = 0, !.refractory = 4]
    IN  [n |-> f,
         signals |-> [k \in 1..Len(f.outgoing) |-> <<f.outgoing[k], f.activity>>]]

\* the neuron after _fire and the list _fire returns
Neuron_fire(n) ==
    LET f == [n EXCEPT !.activity = Scale, !.potential = 0, !.refractory = 5]
    IN  [n |-> f,
         signals |-> [k \in 1..Len(f.outgoing) |-> <<f.outgoing[k], f.activity>>]]

\* the countdown without its guard refractory > 0
Neuron_countdown_unguarded(n) ==
    [n EXCEPT !.refractory = @ - 1, !.activity = (@ * 4) \div 5]

\* the refractory countdown of update (network.py:46-48)
Neuron_countdown(n) ==
    IF n.refractory > 0
    THEN [n EXCEPT !.refractory = @ - 1, !.activity = (@ * 4) \div 5]
    ELSE n

\* the firing test without its comparison of potential with threshold
Neuron_should_fire_at_rest(n) == n.refractory <= 0

\* the firing test of update (network.py:51), on the neuron after countdown
Neuron_should_fire(n) == n.potential >= n.threshold /\ n.refractory <= 0

\* update with the firing test made before the countdown instead of after it
Neuron_update_test_first(n, decay_rate) ==
    LET n1 == Neuron_countdown(n)
        f  == IF Neuron_should_fire(n)
              THEN Neuron_fire(n1)
              ELSE [n |-> n1, signals |-> <<>>]
    IN  [n |-> [f.n EXCEPT !.potential = (@ * (Scale - decay_rate)) \div Scale],
         signals |-> f.signals,
         fired |-> Neuron_should_fire(n)]

\* decay_rate is in Scale units
Neuron_update(n, decay_rate) ==
    Once(LAMBDA n1 :
             LET f == IF Neuron_should_fire(n1)
                      THEN Neuron_fire(n1)
                      ELSE [n |-> n1, signals |-> <<>>]
             IN  [n |-> [f.n EXCEPT !.potential = (@ * (Scale - decay_rate)) \div Scale],
                  signals |-> f.signals,
                  fired |-> Neuron_should_fire(n1)],
         Neuron_countdown(n))

\* stimulate refused while the neuron is refractory, as receive_input is
Neuron_stimulate_gated(n, strength) ==
    IF n.refractory > 0 THEN n ELSE [n EXCEPT !.potential = @ + strength]

Neuron_stimulate(n, strength) == [n EXCEPT !.potential = @ + strength]

----------------------------------------------------------------------------
(* Signal and Connection (network.py:72-113) *)

\* a signal created one base step along the connection
NewSignal_advanced(strength, sid) ==
    [progress |-> DblBaseSpeed, strength |-> strength, sid |-> sid]

\* sid stands for the identity of the Signal object
NewSignal(strength, sid) == [progress |-> DblZero, strength |-> strength, sid |-> sid]

FreshConnection(from, to) ==
    [from_neuron |-> from, to_neuron |-> to, weight |-> WScale,
     activity |-> 0, signals |-> <<>>]

Connection_add_signal(c, strength, sid) ==
    [c EXCEPT !.signals = Append(@, NewSignal(strength, sid)),
              !.activity = Min(Scale, @ + (3 * Scale) \div 10)]

\* the arrival test with > in place of >=
HasArrived_strict(signal) == DblLess(DblOne, signal.progress)

\* the arrival test of update (network.py:105)
HasArrived(signal) == DblGE(signal.progress, DblOne)

\* every signal advanced by base_speed * speed_multiplier (network.py:102-103)
Advance(signals, speed_multiplier) ==
    Once(LAMBDA step :
             [k \in 1..Len(signals) |->
                 [signals[k] EXCEPT !.progress = DblAdd(@, step)]],
         DblMulInt(DblBaseSpeed, speed_multiplier))

\* update that returns the arrived signals and leaves them on the connection
Connection_update_keeping(c, speed_multiplier) ==
    Once(LAMBDA moved :
             [c |-> [c EXCEPT !.signals = moved,
                              !.activity = (@ * 95) \div 100],
              arrived |-> SelectSeq(moved, HasArrived)],
         Advance(c.signals, speed_multiplier))

\* speed_multiplier is a whole number; the connection after update and the
\* list update returns
Connection_update(c, speed_multiplier) ==
    Once(LAMBDA moved :
             [c |-> [c EXCEPT !.signals = SelectSeq(moved, LAMBDA g : ~HasArrived(g)),
                              !.activity = (@ * 95) \div 100],
              arrived |-> SelectSeq(moved, HasArrived)],
         Advance(c.signals, speed_multiplier))

----------------------------------------------------------------------------
(* Values the calls are made with *)

\* largest |potential|, in whole units of 1.0, at which a caller still adds input
MaxPotential == 1

Half == Scale \div 2                       \* Neuron.threshold default 0.5
DefaultDecay == Scale \div 20              \* Neuron.update decay_rate default 0.05

Thresholds == {Half, 0}
Amounts == {0 - (3 * Scale) \div 10, (3 * Scale) \div 10}
Weights == {WScale, 2 * WScale}
Strengths == {(2 * Scale) \div 5}
DecayRates == {DefaultDecay, Scale \div 2}

\* the record of a call: its name, target, two arguments, a flag and a list
\* it returned or handed on; fired and emitted are filled in by Network.update
Call(op, nid, a1, a2, flag, ret) ==
    [op |-> op, nid |-> nid, a1 |-> a1, a2 |-> a2, flag |-> flag, ret |-> ret,
     fired |-> {}, emitted |-> {}, outcome |-> None]

NoCall == Call("init", None, 0, 0, FALSE, <<>>)

NoCalls == [ticks |-> 0, drive |-> 0, learn |-> 0, hub |-> 0,
            arrived |-> <<>>, fired_at |-> [id \in {} |-> 0]]

----------------------------------------------------------------------------
(* main.py: the module state and the coroutines that share it.  A task is  *)
(* the simulation_loop or the websocket_endpoint call of one websocket; a  *)
(* step of a task is the code it runs between two awaits.                  *)

\* the websockets that connect in one run, and the tasks of the event loop
WebSockets == {"w1", "w2", "w3"}
Tasks == WebSockets \cup {"loop"}

\* a task that has not called broadcast_state
NoBroadcast == [phase |-> "none", idx |-> 0, sent |-> <<>>, present |-> {},
                state |-> <<>>]

\* main.py:25-32 at import, every websocket_endpoint call still at
\* `await websocket.accept()` and simulation_loop at its sleep
ServerStart ==
    [connections |-> <<>>,
     simulation_state |-> [running |-> FALSE, speed |-> 1, tick |-> 0],
     handlers |-> [ws \in WebSockets |-> "new"],
     loop |-> "sleeping",
     broadcasts |-> [t \in Tasks |-> NoBroadcast],
     steps |-> 0]

\* list.remove(x): the list without the first entry equal to x
ListRemove(list, x) ==
    LET first == CHOOSE k \in 1..Len(list) :
                     list[k] = x /\ \A j \in 1..(k - 1) : list[j] # x
    IN  SubSeq(list, 1, first - 1) \o SubSeq(list, first + 1, Len(list))

\* the position of task t after it leaves broadcast_state or stays in it
Position(srv, t, where) ==
    IF t = "loop" THEN [srv EXCEPT !.loop = where]
    ELSE [srv EXCEPT !.handlers[t] = where]

\* what a task goes back to when broadcast_state returns: the sleep of
\* simulation_loop (main.py:111) or receive_text (main.py:48)
Waiting(t) == IF t = "loop" THEN "sleeping" ELSE "receiving"

\* the for statement of broadcast_state asking its list iterator for the next
\* entry: the iterator holds an index into the list object `connections` and
\* reads the list as it is now; with an entry it sends to it and awaits
\* (main.py:95-97), without one the call returns
BroadcastNext(srv, t) ==
    LET b == srv.broadcasts[t]
    IN  IF b.idx < Len(srv.connections)
        THEN Position([srv EXCEPT !.broadcasts[t] =
                          [b EXCEPT !.phase = "sending",
                                    !.idx = @ + 1,
                                    !.sent = Append(@, srv.connections[b.idx + 1])]],
                      t, "broadcasting")
        ELSE Position([srv EXCEPT !.broadcasts[t] = [b EXCEPT !.phase = "done"]],
                      t, Waiting(t))

\* broadcast_state called by task t (main.py:80-99), up to its first await
\* or its return; present is the set of websockets in connections at the call
broadcast_state(srv, t) ==
    IF srv.connections = <<>>
    THEN Position([srv EXCEPT !.broadcasts[t] = [NoBroadcast EXCEPT !.phase = "done"]],
                  t, Waiting(t))
    ELSE BroadcastNext(
             [srv EXCEPT !.broadcasts[t] =
                 [NoBroadcast EXCEPT
                     !.present = {srv.connections[k] : k \in 1..Len(srv.connections)},
                     !.state = <<srv.simulation_state>>]],
             t)

\* connections.remove(websocket) (main.py:77); the websocket is no longer one
\* that is in connections for the whole of a broadcast_state call in progress
RemoveConnection(srv, ws) ==
    [srv EXCEPT !.connections = ListRemove(@, ws),
                !.handlers[ws] = "closed",
                !.broadcasts = [t \in Tasks |->
                                   IF srv.broadcasts[t].phase = "sending"
                                   THEN [srv.broadcasts[t] EXCEPT
                                            !.present = @ \ {ws}]
                                   ELSE srv.broadcasts[t]]]

\* the branch of websocket_endpoint for one control message (main.py:51-63)
Control(srv, ws, action) ==
    CASE action = "play" ->
             [srv EXCEPT !.simulation_state.running = TRUE]
      [] action = "pause" ->
             [srv EXCEPT !.simulation_state.running = FALSE]
      [] action = "step" ->
             broadcast_state([srv EXCEPT !.simulation_state.tick = @ + 1], ws)
      [] action = "reset" ->
             broadcast_state([srv EXCEPT !.simulation_state.tick = 0,
                                         !.simulation_state.running = FALSE], ws)
      [] OTHER -> srv

InRange(n) ==
    /\ n.potential <= MaxPotential * Scale
    /\ n.potential >= 0 - MaxPotential * Scale

----------------------------------------------------------------------------
(* SpecNeuron: one freshly created Neuron driven by direct calls of its    *)
(* three methods, the calls Network.update and Region.stimulate make.      *)

NoLearning ==
    /\ algs = <<>>
    /\ algorithms = <<>>
    /\ active_algorithm = None

InitNeuron ==
    /\ \E thr \in Thresholds, out \in {<<>>, <<"c1", "c2">>} :
           neurons = [x \in {"n"} |-> FreshNeuron(thr, out, <<>>)]
    /\ conns = <<>>
    /\ connections = <<>>
    /\ total_activity = <<>>
    /\ total_signals = 0
    /\ active_neurons = 0
    /\ NoLearning
    /\ hub = NoHub
    /\ last = NoCall
    /\ calls = NoCalls
    /\ server = ServerStart

UnchangedButNeurons ==
    UNCHANGED <<conns, connections, total_activity, total_signals,
                active_neurons, algs, algorithms, active_algorithm, hub, server,
                calls>>

CallReceiveInput(amount, weight) ==
    /\ InRange(neurons["n"])
    /\ neurons' = [neurons EXCEPT !["n"] = Neuron_receive_input(@, amount, weight)]
    /\ last' = Call("receive_input", "n", amount, weight,
                    neurons["n"].refractory > 0, <<>>)
    /\ UnchangedButNeurons

CallUpdate(decay_rate) ==
    LET u == Neuron_update(neurons["n"], decay_rate)
    IN  /\ neurons' = [neurons EXCEPT !["n"] = u.n]
        /\ last' = Call("update", "n", decay_rate, neurons["n"].refractory,
                        u.fired, u.signals)
        /\ UnchangedButNeurons

CallStimulate(strength) ==
    /\ InRange(neurons["n"])
    /\ neurons' = [neurons EXCEPT !["n"] = Neuron_stimulate(@, strength)]
    /\ last' = Call("stimulate", "n", strength, 0,
                    neurons["n"].refractory > 0, <<>>)
    /\ UnchangedButNeurons

NextNeuron ==
    \/ \E amount \in Amounts, weight \in Weights : CallReceiveInput(amount, weight)
    \/ \E decay_rate \in DecayRates : CallUpdate(decay_rate)
    \/ \E strength \in Strengths : CallStimulate(strength)

SpecNeuron == InitNeuron /\ [][NextNeuron]_vars

----------------------------------------------------------------------------
(* C1: after any sequence of update, receive_input and stimulate calls on  *)
(* a freshly created neuron, 0 <= activity <= 1 and 0 <= refractory <= 5.  *)
C1_ActivityRefractoryRange ==
    \A x \in DOMAIN neurons :
        /\ 0 <= neurons[x].activity /\ neurons[x].activity <= Scale
        /\ 0 <= neurons[x].refractory /\ neurons[x].refractory <= 5

\* the neuron has fired and is two updates into its countdown
C1_Witness ==
    /\ last.op = "update"
    /\ neurons["n"].refractory = 3
    /\ neurons["n"].activity > 0 /\ neurons["n"].activity < Scale

(* C2: receive_input on a neuron with refractory > 0 changes no field of   *)
(* the neuron, for every amount and weight; with refractory = 0 it adds    *)
(* amount * weight to potential; stimulate adds strength to potential      *)
(* whatever the refractory value.                                          *)
C2_Step ==
    LET n == neurons["n"]
        c == last'
    IN  /\ (c.op = "receive_input" /\ n.refractory > 0) => neurons' = neurons
        /\ (c.op = "receive_input" /\ n.refractory = 0) =>
               neurons'["n"] =
                   [n EXCEPT !.potential = n.potential + ((c.a1 * c.a2) \div WScale)]
        /\ c.op = "stimulate" =>
               neurons'["n"] = [n EXCEPT !.potential = n.potential + c.a1]

C2_RefractoryGatesInputOnly == [][C2_Step]_vars

\* receive_input has just been called on a refractory neuron holding potential
C2_Witness ==
    /\ last.op = "receive_input"
    /\ last.flag
    /\ neurons["n"].refractory > 0
    /\ neurons["n"].potential > 0

(* C3: update fires exactly when, after the countdown of that call,        *)
(* potential >= threshold and refractory <= 0; when it fires it returns    *)
(* with activity = 1.0, potential = 0, refractory = 5 and one              *)
(* (connection, 1.0) pair per outgoing connection; otherwise it returns    *)
(* the empty list.                                                         *)
C3_Step ==
    LET n     == neurons["n"]
        m     == neurons'["n"]
        c     == last'
        after == IF n.refractory > 0 THEN n.refractory - 1 ELSE n.refractory
        fires == n.potential >= n.threshold /\ after <= 0
    IN  c.op = "update" =>
            /\ c.flag = fires
            /\ fires => /\ m.activity = Scale
                        /\ m.potential = 0
                        /\ m.refractory = 5
                        /\ c.ret = [k \in 1..Len(n.outgoing) |-> <<n.outgoing[k], Scale>>]
            /\ ~fires => /\ c.ret = <<>>
                         /\ m.refractory = after

C3_FireRule == [][C3_Step]_vars

\* a neuron that entered update with refractory = 1 fired in that call
C3_Witness ==
    /\ last.op = "update"
    /\ last.flag
    /\ last.a2 = 1
    /\ Len(last.ret) = 2
    /\ neurons["n"].refractory = 5

----------------------------------------------------------------------------
(* SpecArrival: one Connection; a signal is added at progress 0 and the    *)
(* connection is then updated with one constant whole speed_multiplier     *)
(* until the signal arrives.  calls.ticks counts the updates since the     *)
(* signal was added.                                                       *)

\* largest speed_multiplier tried
MaxMultiplier == 25

Multipliers == 1..MaxMultiplier

InitArrival ==
    /\ neurons = <<>>
    /\ conns = [x \in {"c"} |-> FreshConnection("a", "b")]
    /\ connections = <<>>
    /\ total_activity = <<>>
    /\ total_signals = 0
    /\ active_neurons = 0
    /\ NoLearning
    /\ hub = NoHub
    /\ last = NoCall
    /\ calls = NoCalls
    /\ server = ServerStart

UnchangedButConns ==
    UNCHANGED <<neurons, connections, total_activity, total_signals,
                active_neurons, algs, algorithms, active_algorithm, hub, server>>

CallAddSignal ==
    /\ last.op = "init"
    /\ conns' = [conns EXCEPT !["c"] = Connection_add_signal(@, Scale, 0)]
    /\ last' = Call("add_signal", "c", 0, 0, FALSE, <<>>)
    /\ calls' = NoCalls
    /\ UnchangedButConns

CallConnectionUpdate(speed_multiplier) ==
    LET u == Connection_update(conns["c"], speed_multiplier)
    IN  /\ conns["c"].signals # <<>>
        /\ last.op = "connection_update" => last.a1 = speed_multiplier
        /\ conns' = [conns EXCEPT !["c"] = u.c]
        /\ last' = Call("connection_update", "c", speed_multiplier, 0,
                        u.arrived # <<>>, u.arrived)
        /\ calls' = [calls EXCEPT !.ticks = @ + 1]
        /\ UnchangedButConns

NextArrival ==
    \/ CallAddSignal
    \/ \E speed_multiplier \in Multipliers : CallConnectionUpdate(speed_multiplier)

SpecArrival == InitArrival /\ [][NextArrival]_vars

\* ceil(1 / (0.02 * m)) = ceil(50 / m)
CeilTicks(m) == (50 + m - 1) \div m

(* C5 as stated: the signal arrives in update number ceil(1 / (0.02 * m))  *)
(* for every constant multiplier m > 0.                                    *)
C5_ArrivalIsCeil ==
    last.op = "connection_update" =>
        (last.flag <=> calls.ticks = CeilTicks(last.a1))

(* C5, amended: the signal arrives on the 50th update at multiplier 1 and  *)
(* on the 25th at multiplier 2, not earlier; for a constant whole          *)
(* multiplier m it arrives in update ceil(1 / (0.02 * m)), except at m = 5 *)
(* where it arrives in update 11: ten double-precision additions of 0.1    *)
(* give 0.9999999999999999.                                                *)
C5_ArrivalTick ==
    last.op = "connection_update" =>
        /\ last.flag <=> conns["c"].signals = <<>>
        /\ last.a1 = 1 => (last.flag <=> calls.ticks = 50)
        /\ last.a1 = 2 => (last.flag <=> calls.ticks = 25)
        /\ last.a1 = 5 => (last.flag <=> calls.ticks = 11)
        /\ last.a1 # 5 => (last.flag <=> calls.ticks = CeilTicks(last.a1))

\* the signal has just arrived in the 50th update at multiplier 1
C5_Witness ==
    /\ last.op = "connection_update"
    /\ last.a1 = 1
    /\ last.flag
    /\ calls.ticks = 50
    /\ conns["c"].signals = <<>>

----------------------------------------------------------------------------
(* Region and Network construction (network.py:116-160, 184-301) *)

\* Network.DEFAULT_REGIONS, in insertion order
RegionCatalog == <<"frontal", "parietal", "temporal", "occipital", "motor", "sensory">>

\* number of catalog regions built, counted from the end of the catalog
NumRegions == 2

\* Region.neuron_count (60 in the program)
NeuronCount == 2

\* largest number of edges the random draws of one construction produce
MaxConns == 2

RegionIds == SubSeq(RegionCatalog, Len(RegionCatalog) - NumRegions + 1, Len(RegionCatalog))

RegionSet == {RegionIds[k] : k \in 1..NumRegions}

\* Region.neurons after generate_neurons: neuron i of region r is <<r, i>>
RegionNeurons(r) == [i \in 1..NeuronCount |-> <<r, i - 1>>]

NeuronIds == {<<r, i>> : r \in RegionSet, i \in 0..(NeuronCount - 1)}

\* the pairs the intra-region loops visit, in order (network.py:269-273)
IntraCandidates ==
    LET all == [k \in 1..(NumRegions * NeuronCount * NeuronCount) |->
                   LET r == RegionIds[((k - 1) \div (NeuronCount * NeuronCount)) + 1]
                       i == ((k - 1) \div NeuronCount) % NeuronCount
                       j == (k - 1) % NeuronCount
                   IN  <<<<r, i>>, <<r, j>>>>]
    IN  SelectSeq(all, LAMBDA e : e[1][2] # e[2][2])

\* the inter-region loops run over every ordered pair of distinct regions
InterCandidates_both_ways ==
    LET nn  == NeuronCount * NeuronCount
        all == [k \in 1..(NumRegions * NumRegions * nn) |->
                   LET a  == ((k - 1) \div (NumRegions * nn)) + 1
                       b  == (((k - 1) \div nn) % NumRegions) + 1
                       i  == ((k - 1) \div NeuronCount) % NeuronCount
                       j  == (k - 1) % NeuronCount
                   IN  <<a, b, <<RegionIds[a], i>>, <<RegionIds[b], j>>>>]
        kept == SelectSeq(all, LAMBDA e : e[1] # e[2])
    IN  [k \in 1..Len(kept) |-> <<kept[k][3], kept[k][4]>>]

\* the pairs the inter-region loops visit, in order (network.py:285-292)
InterCandidates ==
    LET nn  == NeuronCount * NeuronCount
        all == [k \in 1..(NumRegions * NumRegions * nn) |->
                   LET a  == ((k - 1) \div (NumRegions * nn)) + 1
                       b  == (((k - 1) \div nn) % NumRegions) + 1
                       i  == ((k - 1) \div NeuronCount) % NeuronCount
                       j  == (k - 1) % NeuronCount
                   IN  <<a, b, <<RegionIds[a], i>>, <<RegionIds[b], j>>>>]
        kept == SelectSeq(all, LAMBDA e : e[1] < e[2])
    IN  [k \in 1..Len(kept) |-> <<kept[k][3], kept[k][4]>>]

Candidates == IntraCandidates \o InterCandidates

CandidateSet == {Candidates[k] : k \in 1..Len(Candidates)}

\* the sets of at most k elements of S
RECURSIVE SubsetsUpTo(_, _)
SubsetsUpTo(S, k) ==
    IF k = 0 THEN {{}}
    ELSE LET smaller == SubsetsUpTo(S, k - 1)
         IN  smaller \cup {T \cup {x} : T \in smaller, x \in S}

\* the appends with both lists taken from the from_neuron side
EndpointIds_from_only(edges, side, n) ==
    SelectSeq([k \in 1..Len(edges) |-> k - 1], LAMBDA c : edges[c + 1][1] = n)

\* the ids of the connections of a list that leave (side 1) or enter (side 2)
\* neuron n, in list order: the appends of network.py:280-281, 299-300
EndpointIds(edges, side, n) ==
    SelectSeq([k \in 1..Len(edges) |-> k - 1], LAMBDA c : edges[c + 1][side] = n)

\* _create_connections: drawn is the set of visited pairs whose random draw
\* fell below the edge probability; connection conn_k is the k-th edge made
Network_create_connections(drawn) ==
    LET edges == SelectSeq(Candidates, LAMBDA e : e \in drawn)
    IN  [connections |-> [k \in 1..Len(edges) |-> k - 1],
         conns |-> [c \in 0..(Len(edges) - 1) |->
                       FreshConnection(edges[c + 1][1], edges[c + 1][2])],
         neurons |-> [n \in NeuronIds |->
                       FreshNeuron(Half,
                                   EndpointIds(edges, 1, n),
                                   EndpointIds(edges, 2, n))]]

----------------------------------------------------------------------------
(* Region.update, Region.stimulate and the Network operations              *)
(* (network.py:162-181, 303-334).  A network state st is a record of the   *)
(* fields the operations read and write; deliveries lists the              *)
(* receive_input calls made for arrived signals, fired the neurons whose   *)
(* update fired, emitted the signals added, in the order of the program.   *)

\* Region.stimulate count default, used by Network.stimulate_region
StimCount == 5

\* inject_input reads data[:10]
InjectLimit == 10

EmitLevel == (9 * Scale) \div 10         \* neuron.activity > 0.9
ActiveLevel == Scale \div 10             \* n.activity > 0.1

NetState ==
    [neurons |-> neurons, conns |-> conns, total_activity |-> total_activity,
     total_signals |-> total_signals, deliveries |-> <<>>, fired |-> {},
     emitted |-> {}]

\* receive_input for every arrived signal of one connection (network.py:308-309)
RECURSIVE Deliver(_, _, _, _)
Deliver(n, arrived, k, weight) ==
    IF k > Len(arrived) THEN n
    ELSE Deliver(Neuron_receive_input(n, arrived[k].strength, weight),
                 arrived, k + 1, weight)

\* the loop over self.connections (network.py:306-309), from list index k
RECURSIVE AdvanceConnections(_, _, _, _)
\* one connection of that loop: conn.update and the receive_input calls
AdvanceOne(st, c, speed_multiplier) ==
    LET to == st.conns[c].to_neuron
        w  == st.conns[c].weight
    IN  Once(LAMBDA u :
                 [st EXCEPT !.conns[c] = u.c,
                            !.neurons[to] = Deliver(@, u.arrived, 1, w),
                            !.deliveries = @ \o
                                [j \in 1..Len(u.arrived) |->
                                    [conn |-> c, to |-> to, sid |-> u.arrived[j].sid,
                                     amount |-> u.arrived[j].strength, weight |-> w,
                                     progress |-> u.arrived[j].progress,
                                     blocked |-> st.neurons[to].refractory > 0]]],
             Connection_update(st.conns[c], speed_multiplier))

AdvanceConnections(st, list, k, speed_multiplier) ==
    IF k > Len(list) THEN st
    ELSE Once(LAMBDA next : AdvanceConnections(next, list, k + 1, speed_multiplier),
              AdvanceOne(st, list[k], speed_multiplier))

RECURSIVE SumActivity(_, _, _)
SumActivity(ns, members, k) ==
    IF k > Len(members) THEN 0
    ELSE ns[members[k]].activity + SumActivity(ns, members, k + 1)

\* the sum left undivided
MeanActivity_sum(sum, count) == sum

\* network.py:170-171: the sum is divided only when the region has neurons
MeanActivity(sum, count) == IF count > 0 THEN sum \div count ELSE sum

\* Region.update for the region whose neurons are members
Region_update(st, r, members) ==
    LET inRegion == {members[k] : k \in 1..Len(members)}
    IN  Once(LAMBDA upd :
                 [st EXCEPT !.neurons = [n \in DOMAIN st.neurons |->
                                            IF n \in inRegion THEN upd[n].n ELSE @[n]],
                            !.total_activity[r] =
                                Once(LAMBDA sum : MeanActivity(sum, Len(members)),
                                     SumActivity([n \in inRegion |-> upd[n].n],
                                                 members, 1)),
                            !.fired = @ \cup {n \in inRegion : upd[n].fired}],
             [n \in inRegion |-> Neuron_update(st.neurons[n], DefaultDecay)])

\* add_signal on the outgoing connections of one neuron, from index k
\* (network.py:316-318)
RECURSIVE EmitOn(_, _, _, _)
EmitOn(st, out, k, strength) ==
    IF k > Len(out) THEN st
    ELSE Once(LAMBDA next : EmitOn(next, out, k + 1, strength),
              [st EXCEPT !.conns[out[k]] =
                             Connection_add_signal(@, strength, st.total_signals + 1),
                         !.total_signals = @ + 1,
                         !.emitted = @ \cup {st.total_signals + 1}])

\* the loop over region.neurons after region.update() (network.py:314-318)
RECURSIVE EmitRegion(_, _, _)
EmitRegion(st, members, k) ==
    IF k > Len(members) THEN st
    ELSE LET n == st.neurons[members[k]]
         IN  Once(LAMBDA next : EmitRegion(next, members, k + 1),
                  IF n.activity > EmitLevel
                  THEN EmitOn(st, n.outgoing, 1, n.activity)
                  ELSE st)

\* the loop over self.regions (network.py:312-318), from region index k
RECURSIVE UpdateRegions(_, _)
UpdateRegions(st, k) ==
    IF k > NumRegions THEN st
    ELSE LET r == RegionIds[k]
         IN  Once(LAMBDA next : UpdateRegions(next, k + 1),
                  Once(LAMBDA updated : EmitRegion(updated, RegionNeurons(r), 1),
                       Region_update(st, r, RegionNeurons(r))))

CountActive(ns) == Cardinality({n \in NeuronIds : ns[n].activity > ActiveLevel})

\* update with the regions updated before the connections are advanced
Network_update_regions_first(st, list, speed_multiplier) ==
    Once(LAMBDA updated : AdvanceConnections(updated, list, 1, speed_multiplier),
         Once(LAMBDA start : UpdateRegions(start, 1), st))

\* Network.update: the state after the call
Network_update(st, list, speed_multiplier) ==
    Once(LAMBDA delivered : UpdateRegions(delivered, 1),
         Once(LAMBDA start : AdvanceConnections(start, list, 1, speed_multiplier), st))

\* Region.stimulate on the neurons the shuffle put first
RECURSIVE StimulateAll(_, _, _)
StimulateAll(ns, chosen, strength) ==
    IF chosen = {} THEN ns
    ELSE LET n == CHOOSE x \in chosen : TRUE
         IN  StimulateAll([ns EXCEPT ![n] = Neuron_stimulate(@, strength)],
                          chosen \ {n}, strength)

\* the sets shuffled[:min(count, len(shuffled))] can be
ShuffleChoices(r) ==
    {S \in SUBSET {<<r, i>> : i \in 0..(NeuronCount - 1)} :
        Cardinality(S) = Min(StimCount, NeuronCount)}

\* Network.stimulate_region (network.py:323-326)
Network_stimulate_region(ns, region_id, strength, chosen) ==
    IF region_id \in RegionSet
    THEN StimulateAll(ns, chosen, strength)
    ELSE ns

\* what the caller of stimulate_region gets back: the method has no return
\* statement and raises nothing on either branch of its test
Network_stimulate_region_outcome(region_id) ==
    IF region_id \in RegionSet THEN None ELSE None

\* Network.inject_input (network.py:328-334), from data index k
RECURSIVE InjectFrom(_, _, _)
InjectFrom(ns, data, k) ==
    IF k > Min(Len(data), InjectLimit) THEN ns
    ELSE InjectFrom(IF <<"sensory", k - 1>> \in DOMAIN ns
                    THEN [ns EXCEPT ![<<"sensory", k - 1>>] =
                                        Neuron_stimulate(@, data[k])]
                    ELSE ns,
                    data, k + 1)

Network_inject_input(ns, data) ==
    IF "sensory" \in RegionSet THEN InjectFrom(ns, data, 1) ELSE ns

----------------------------------------------------------------------------
(* Learning (learning.py).  An algorithm object is a record; the manager   *)
(* maps names to objects.  A trace is [m, e], worth m * 2^-e units of      *)
(* 1 / Scale^2, kept with m odd or e = 0.                                  *)

MinWeight == WScale \div 10              \* min_weight default 0.1
MaxWeight == 2 * WScale                  \* max_weight default 2.0

\* max(self.min_weight, min(self.max_weight, w)) with the bounds of object alg
Clamp(alg, w) == Max(alg.min_weight, Min(alg.max_weight, w))

TraceZero == [m |-> 0, e |-> 0]

RECURSIVE Normal(_)
Normal(t) ==
    IF t.m = 0 THEN TraceZero
    ELSE IF t.e > 0 /\ t.m % 2 = 0 THEN Normal([m |-> t.m \div 2, e |-> t.e - 1])
    ELSE t

\* trace * trace_decay + pre * post, trace_decay = 0.9
TraceAccumulate(t, pre, post) ==
    Normal([m |-> ((t.m * 9) \div 10) + pre * post * (2^(t.e)), e |-> t.e])

\* trace * 0.5
TraceHalve(t) == Normal([m |-> t.m, e |-> t.e + 1])

\* learning_rate * trace * reward in weight units, learning_rate = 0.01
RewardDelta(t, reward) == ((t.m \div Scale) * reward) \div (Scale * (2^(t.e)))

\* HebbianLearning(network, max_weight = max_weight, min_weight = min_weight):
\* the bounds are stored as given
HebbianLearning_init(max_weight, min_weight) ==
    [kind |-> "hebbian", enabled |-> FALSE, traces |-> <<>>,
     max_weight |-> max_weight, min_weight |-> min_weight]

\* RewardBasedLearning(network, max_weight = max_weight, min_weight = min_weight)
\* for a network whose connections are list
RewardBasedLearning_init(list, max_weight, min_weight) ==
    [kind |-> "reward", enabled |-> FALSE,
     traces |-> [c \in {list[k] : k \in 1..Len(list)} |-> TraceZero],
     max_weight |-> max_weight, min_weight |-> min_weight]

\* HebbianLearning(network) and RewardBasedLearning(network) as constructed
NewHebbian == HebbianLearning_init(MaxWeight, MinWeight)

NewReward(list) == RewardBasedLearning_init(list, MaxWeight, MinWeight)

\* the rule without the clamp of learning.py:88
HebbianWeight_unclamped(alg, w, pre, post) ==
    LET delta == (pre * post) \div Scale
        decay == (w - WScale) \div 1000
    IN  w + delta - decay

\* one connection's weight after the Hebbian rule (learning.py:75-88)
HebbianWeight(alg, w, pre, post) ==
    LET delta == (pre * post) \div Scale
        decay == (w - WScale) \div 1000
    IN  Clamp(alg, w + delta - decay)

\* the loops over self.network.connections visit each connection once and
\* touch only that connection, so they are taken connection by connection
OnList(list) == {list[k] : k \in 1..Len(list)}

\* update without the enabled test of learning.py:71-72
Hebbian_update_ungated(alg, cs, ns, list) ==
    [c \in DOMAIN cs |->
        IF c \in OnList(list)
        THEN [cs[c] EXCEPT !.weight =
                  HebbianWeight(alg, @, ns[cs[c].from_neuron].activity,
                                   ns[cs[c].to_neuron].activity)]
        ELSE cs[c]]

\* HebbianLearning.update: the connection objects after the call
Hebbian_update(alg, cs, ns, list) ==
    IF ~alg.enabled THEN cs
    ELSE [c \in DOMAIN cs |->
             IF c \in OnList(list)
             THEN [cs[c] EXCEPT !.weight =
                       HebbianWeight(alg, @, ns[cs[c].from_neuron].activity,
                                        ns[cs[c].to_neuron].activity)]
             ELSE cs[c]]

\* HebbianLearning.apply_reward
Hebbian_apply_reward(alg, cs, reward) == cs

\* traces.get(conn.id, 0.0)
TraceOf(alg, c) == IF c \in DOMAIN alg.traces THEN alg.traces[c] ELSE TraceZero

\* RewardBasedLearning.update: the algorithm object after the call
Reward_update(alg, cs, ns, list) ==
    IF ~alg.enabled THEN alg
    ELSE [alg EXCEPT !.traces =
             [c \in DOMAIN alg.traces \cup OnList(list) |->
                 IF c \in OnList(list)
                 THEN TraceAccumulate(TraceOf(alg, c),
                                      ns[cs[c].from_neuron].activity,
                                      ns[cs[c].to_neuron].activity)
                 ELSE alg.traces[c]]]

\* apply_reward without the enabled test of learning.py:136-137
Reward_apply_reward_ungated(alg, cs, list, reward) ==
    [conns |-> [c \in DOMAIN cs |->
                   IF c \in OnList(list)
                   THEN [cs[c] EXCEPT !.weight =
                             Clamp(alg, @ + RewardDelta(TraceOf(alg, c), reward))]
                   ELSE cs[c]],
     alg |-> [alg EXCEPT !.traces =
                 [c \in DOMAIN alg.traces |-> TraceHalve(alg.traces[c])]]]

\* RewardBasedLearning.apply_reward: the connections and the object after it
Reward_apply_reward(alg, cs, list, reward) ==
    IF ~alg.enabled THEN [conns |-> cs, alg |-> alg]
    ELSE [conns |-> [c \in DOMAIN cs |->
                        IF c \in OnList(list)
                        THEN [cs[c] EXCEPT !.weight =
                                  Clamp(alg, @ + RewardDelta(TraceOf(alg, c), reward))]
                        ELSE cs[c]],
          alg |-> [alg EXCEPT !.traces =
                      [c \in DOMAIN alg.traces |-> TraceHalve(alg.traces[c])]]]

\* algorithm.update() and algorithm.apply_reward() by kind of object
Alg_update(alg, cs, ns, list) ==
    IF alg.kind = "hebbian"
    THEN [conns |-> Hebbian_update(alg, cs, ns, list), alg |-> alg]
    ELSE [conns |-> cs, alg |-> Reward_update(alg, cs, ns, list)]

Alg_apply_reward(alg, cs, list, reward) ==
    IF alg.kind = "hebbian"
    THEN [conns |-> Hebbian_apply_reward(alg, cs, reward), alg |-> alg]
    ELSE Reward_apply_reward(alg, cs, list, reward)

\* the truth value Python gives a name in `if self.active_algorithm and ...`
Truthy(name) == name # None /\ name # ""

\* LearningManager.add_algorithm
Manager_add_algorithm(reg, name, obj) ==
    [x \in DOMAIN reg \cup {name} |-> IF x = name THEN obj ELSE reg[x]]

\* the test of learning.py:171, 180 and 185
HasActive(reg, active) == Truthy(active) /\ active \in DOMAIN reg

\* LearningManager.set_active: the objects and active_algorithm after it
Manager_set_active(objs, reg, active, name) ==
    IF name \in DOMAIN reg
    THEN LET off == IF HasActive(reg, active)
                    THEN [objs EXCEPT ![reg[active]].enabled = FALSE]
                    ELSE objs
         IN  [algs |-> [off EXCEPT ![reg[name]].enabled = TRUE], active |-> name]
    ELSE [algs |-> objs, active |-> active]

\* what the caller of set_active gets back: no return statement, and
\* nothing raised, on either branch of `if name in self.algorithms`
Manager_set_active_outcome(reg, name) ==
    IF name \in DOMAIN reg THEN None ELSE None

----------------------------------------------------------------------------
(* Spec: a constructed Network with the learning manager of                *)
(* create_learning_manager, driven by Network.update, stimulate_region and *)
(* inject_input.                                                           *)

\* Network.update calls in one run
MaxTicks == 4

\* stimulate_region and inject_input calls in one run
MaxDrive == 2

SpeedMultipliers == {0 - 1, 1, 50}
RegionKeys == RegionSet \cup {"nowhere"}
Inputs == {<<(3 * Scale) \div 10>>, <<Scale, Scale, Scale>>}

InitNetwork ==
    /\ \E drawn \in SubsetsUpTo(CandidateSet, MaxConns) :
           LET t == Network_create_connections(drawn)
           IN  /\ neurons = t.neurons
               /\ conns = t.conns
               /\ connections = t.connections
               /\ algs = [o \in {"H", "R", "H2"} |->
                             IF o = "R" THEN NewReward(t.connections) ELSE NewHebbian]
    /\ total_activity = [r \in RegionSet |-> 0]
    /\ total_signals = 0
    /\ active_neurons = 0
    /\ algorithms = [x \in {"hebbian", "reward"} |->
                        IF x = "hebbian" THEN "H" ELSE "R"]
    /\ active_algorithm = None
    /\ hub = NoHub
    /\ last = NoCall
    /\ calls = NoCalls
    /\ server = ServerStart

UnchangedLearning == UNCHANGED <<algs, algorithms, active_algorithm>>

Tick(speed_multiplier, limit) ==
    /\ calls.ticks < limit
    /\ \E st \in {Network_update(NetState, connections, speed_multiplier)} :
           /\ neurons' = st.neurons
           /\ conns' = st.conns
           /\ total_activity' = st.total_activity
           /\ total_signals' = st.total_signals
           /\ active_neurons' = CountActive(st.neurons)
           /\ last' = [Call("network_update", None, speed_multiplier, 0,
                            st.fired # {}, st.deliveries)
                          EXCEPT !.fired = st.fired, !.emitted = st.emitted]
           /\ calls' = [calls EXCEPT
                  !.ticks = @ + 1,
                  !.arrived = @ \o [j \in 1..Len(st.deliveries) |->
                                       [sid |-> st.deliveries[j].sid,
                                        conn |-> st.deliveries[j].conn,
                                        to |-> st.deliveries[j].to]],
                  !.fired_at = [id \in DOMAIN @ \cup st.fired |->
                                   LET before == IF id \in DOMAIN @ THEN @[id]
                                                 ELSE <<>>
                                   IN  IF id \in st.fired
                                       THEN Append(before, calls.ticks + 1)
                                       ELSE before]]
    /\ UNCHANGED <<connections, hub, server>>
    /\ UnchangedLearning

StimulateRegion(region_id, strength, limit) ==
    /\ calls.drive < limit
    /\ \E chosen \in ShuffleChoices(region_id) :
           neurons' = Network_stimulate_region(neurons, region_id, strength, chosen)
    /\ last' = [Call("stimulate_region", region_id, strength, 0,
                     region_id \in RegionSet, <<>>)
                   EXCEPT !.outcome = Network_stimulate_region_outcome(region_id)]
    /\ calls' = [calls EXCEPT !.drive = @ + 1]
    /\ UNCHANGED <<conns, connections, total_activity, total_signals,
                   active_neurons, hub, server>>
    /\ UnchangedLearning

InjectInput(data, limit) ==
    /\ calls.drive < limit
    /\ neurons' = Network_inject_input(neurons, data)
    /\ last' = Call("inject_input", None, 0, 0, FALSE, data)
    /\ calls' = [calls EXCEPT !.drive = @ + 1]
    /\ UNCHANGED <<conns, connections, total_activity, total_signals,
                   active_neurons, hub, server>>
    /\ UnchangedLearning

Next ==
    \/ \E speed_multiplier \in SpeedMultipliers : Tick(speed_multiplier, MaxTicks)
    \/ \E region_id \in RegionKeys : StimulateRegion(region_id, Scale, MaxDrive)
    \/ \E data \in Inputs : InjectInput(data, MaxDrive)

Spec == InitNetwork /\ [][Next]_vars

----------------------------------------------------------------------------
(* SpecLearn: the same network and manager, with the calls of the          *)
(* learning subsystem: the LearningManager methods, and update and         *)
(* apply_reward called on an algorithm object directly.  add_algorithm is  *)
(* given objects that are disabled, as create_learning_manager gives it.   *)

\* learning calls in one run
MaxLearn == 4

\* Network.update calls in one run of SpecLearn
LearnTicks == 1

\* stimulate_region and inject_input calls in one run of SpecLearn
LearnDrive == 1

AddNames == {"", "hebbian"}
ActiveNames == {"", "hebbian", "reward", "unknown"}
Rewards == {0, Scale}
DirectObjects == {"H", "R"}

LearnCall(op, nid, a1, ran) ==
    /\ last' = Call(op, nid, a1, 0, ran # <<>>, ran)
    /\ calls' = [calls EXCEPT !.learn = @ + 1]
    /\ UNCHANGED <<neurons, connections, total_activity, total_signals,
                   active_neurons, hub, server>>

AddAlgorithm(name, obj, limit) ==
    /\ calls.learn < limit
    /\ ~algs[obj].enabled
    /\ algorithms' = Manager_add_algorithm(algorithms, name, obj)
    /\ LearnCall("add_algorithm", name, 0, <<>>)
    /\ UNCHANGED <<conns, algs, active_algorithm>>

SetActive(name, limit) ==
    /\ calls.learn < limit
    /\ \E r \in {Manager_set_active(algs, algorithms, active_algorithm, name)} :
           /\ algs' = r.algs
           /\ active_algorithm' = r.active
    /\ last' = [Call("set_active", name, 0, 0, FALSE, <<>>)
                   EXCEPT !.outcome = Manager_set_active_outcome(algorithms, name)]
    /\ calls' = [calls EXCEPT !.learn = @ + 1]
    /\ UNCHANGED <<neurons, conns, connections, total_activity, total_signals,
                   active_neurons, algorithms, hub, server>>

\* algorithm.update() on object obj
RunUpdate(obj) ==
    \E r \in {Alg_update(algs[obj], conns, neurons, connections)} :
        /\ conns' = r.conns
        /\ algs' = [algs EXCEPT ![obj] = r.alg]

\* algorithm.apply_reward(reward) on object obj
RunReward(obj, reward) ==
    \E r \in {Alg_apply_reward(algs[obj], conns, connections, reward)} :
        /\ conns' = r.conns
        /\ algs' = [algs EXCEPT ![obj] = r.alg]

ManagerUpdate(limit) ==
    /\ calls.learn < limit
    /\ IF HasActive(algorithms, active_algorithm)
       THEN /\ RunUpdate(algorithms[active_algorithm])
            /\ LearnCall("manager_update", active_algorithm, 0,
                         <<algorithms[active_algorithm]>>)
       ELSE /\ UNCHANGED <<conns, algs>>
            /\ LearnCall("manager_update", active_algorithm, 0, <<>>)
    /\ UNCHANGED <<algorithms, active_algorithm>>

ManagerApplyReward(reward, limit) ==
    /\ calls.learn < limit
    /\ IF HasActive(algorithms, active_algorithm)
       THEN /\ RunReward(algorithms[active_algorithm], reward)
            /\ LearnCall("manager_apply_reward", active_algorithm, reward,
                         <<algorithms[active_algorithm]>>)
       ELSE /\ UNCHANGED <<conns, algs>>
            /\ LearnCall("manager_apply_reward", active_algorithm, reward, <<>>)
    /\ UNCHANGED <<algorithms, active_algorithm>>

AlgUpdate(obj, limit) ==
    /\ calls.learn < limit
    /\ RunUpdate(obj)
    /\ LearnCall("update", obj, 0, <<obj>>)
    /\ UNCHANGED <<algorithms, active_algorithm>>

AlgApplyReward(obj, reward, limit) ==
    /\ calls.learn < limit
    /\ RunReward(obj, reward)
    /\ LearnCall("apply_reward", obj, reward, <<obj>>)
    /\ UNCHANGED <<algorithms, active_algorithm>>

NextLearn ==
    \/ Tick(1, LearnTicks)
    \/ \E region_id \in RegionSet : StimulateRegion(region_id, Scale, LearnDrive)
    \/ InjectInput(<<Scale, Scale, Scale>>, LearnDrive)
    \/ \E name \in AddNames : AddAlgorithm(name, "H2", MaxLearn)
    \/ \E name \in ActiveNames : SetActive(name, MaxLearn)
    \/ ManagerUpdate(MaxLearn)
    \/ \E reward \in Rewards : ManagerApplyReward(reward, MaxLearn)
    \/ \E obj \in DirectObjects : AlgUpdate(obj, MaxLearn)
    \/ \E reward \in Rewards : AlgApplyReward("R", reward, MaxLearn)

SpecLearn == InitNetwork /\ [][NextLearn]_vars

----------------------------------------------------------------------------
(* SpecHebb: the network is stimulated and ticked once, so that the        *)
(* neurons of a stimulated region hold activity 1.0, and the manager then  *)
(* runs HebbianLearning.update again and again on the unchanged            *)
(* activities.                                                             *)

\* learning calls in one run of SpecHebb
HebbUpdates == 120

\* the stimulation comes before the tick, the learning calls after it
Ticked == calls.ticks = LearnTicks

NextHebb ==
    \/ Tick(1, LearnTicks)
    \/ ~Ticked /\ \E region_id \in RegionSet :
                      StimulateRegion(region_id, Scale, LearnDrive)
    \/ Ticked /\ active_algorithm = None /\ SetActive("hebbian", HebbUpdates)
    \/ Ticked /\ active_algorithm # None /\ ManagerUpdate(HebbUpdates)

SpecHebb == InitNetwork /\ [][NextHebb]_vars

----------------------------------------------------------------------------
\* the algorithm object a learning call ran, if it ran one
RanOn(c) == IF c.ret = <<>> THEN None ELSE c.ret[1]

IsUpdateCall(c) == c.op \in {"update", "manager_update"} /\ c.ret # <<>>
IsRewardCall(c) == c.op \in {"apply_reward", "manager_apply_reward"} /\ c.ret # <<>>

Occurrences(list, x) == Cardinality({k \in 1..Len(list) : list[k] = x})

(* C4 as stated: in every Network.update, whatever speed_multiplier is     *)
(* passed, a signal in flight either stays on its connection with a        *)
(* progress that is not lower than before and below 1.0, or has reached    *)
(* progress >= 1.0, is off the connection and was handed once to           *)
(* receive_input(strength, weight) of the connection's to_neuron; no       *)
(* signal with progress >= 1.0 is left on a connection.                    *)
C4_Step ==
    last'.op = "network_update" /\ calls'.ticks = calls.ticks + 1 =>
        \A c \in DOMAIN conns :
            /\ \A k \in 1..Len(conns[c].signals) :
                   LET g    == conns[c].signals[k]
                       stay == {j \in 1..Len(conns'[c].signals) :
                                   conns'[c].signals[j].sid = g.sid}
                       done == {j \in 1..Len(last'.ret) : last'.ret[j].sid = g.sid}
                   IN  \/ /\ Cardinality(stay) = 1
                          /\ done = {}
                          /\ \A j \in stay :
                                 /\ DblGE(conns'[c].signals[j].progress, g.progress)
                                 /\ DblLess(conns'[c].signals[j].progress, DblOne)
                       \/ /\ stay = {}
                          /\ Cardinality(done) = 1
                          /\ \A j \in done :
                                 /\ last'.ret[j].conn = c
                                 /\ last'.ret[j].to = conns[c].to_neuron
                                 /\ last'.ret[j].amount = g.strength
                                 /\ last'.ret[j].weight = conns[c].weight
                                 /\ DblGE(last'.ret[j].progress, DblOne)
            /\ \A j \in 1..Len(conns'[c].signals) :
                   DblLess(conns'[c].signals[j].progress, DblOne)

C4_SignalProgress == [][C4_Step]_vars

(* C6: every connection of Network.connections occurs once in that list,   *)
(* once in its from_neuron's outgoing list, once in its to_neuron's        *)
(* incoming list and in no other neuron's lists, and every connection in   *)
(* a region neuron's lists is in Network.connections.                      *)
C6_ConnectionLists ==
    /\ \A c \in OnList(connections) :
           /\ Occurrences(connections, c) = 1
           /\ \A n \in NeuronIds :
                  /\ Occurrences(neurons[n].outgoing, c) =
                         (IF n = conns[c].from_neuron THEN 1 ELSE 0)
                  /\ Occurrences(neurons[n].incoming, c) =
                         (IF n = conns[c].to_neuron THEN 1 ELSE 0)
    /\ \A n \in NeuronIds :
           /\ OnList(neurons[n].outgoing) \subseteq OnList(connections)
           /\ OnList(neurons[n].incoming) \subseteq OnList(connections)

\* two connections exist, the network has run and a learning call was made
C6_Witness ==
    /\ Len(connections) = 2
    /\ calls.ticks > 0
    /\ total_signals > 0
    /\ IsUpdateCall(last)

EnabledRegistered ==
    {algorithms[x] : x \in DOMAIN algorithms} \cap {o \in DOMAIN algs : algs[o].enabled}

(* C7 as stated: at most one registered algorithm is enabled; once a       *)
(* set_active call has succeeded exactly one is, the one active_algorithm  *)
(* names; one LearningManager.update call runs at most one update.         *)
C7_SingleActive ==
    /\ Cardinality(EnabledRegistered) <= 1
    /\ active_algorithm # None =>
           EnabledRegistered = {algorithms[active_algorithm]}
    /\ last.op = "manager_update" => Len(last.ret) <= 1

NetworkAndManagerUnchanged ==
    UNCHANGED <<neurons, conns, connections, total_activity, total_signals,
                active_neurons, algs, algorithms, active_algorithm>>

(* C8: HebbianLearning.update on a disabled object, and                    *)
(* HebbianLearning.apply_reward with any reward, change no weight and no   *)
(* other state.                                                            *)
C8_Step ==
    LET c == last'
    IN  /\ (IsUpdateCall(c) /\ algs[RanOn(c)].kind = "hebbian"
                            /\ ~algs[RanOn(c)].enabled)
               => NetworkAndManagerUnchanged
        /\ (IsRewardCall(c) /\ algs[RanOn(c)].kind = "hebbian")
               => NetworkAndManagerUnchanged

C8_HebbianNoOps == [][C8_Step]_vars

\* update has just run on the disabled Hebbian object while a connection
\* joins two neurons with activity, where the enabled rule would move it
C8_Witness ==
    /\ last.op = "update"
    /\ last.nid = "H"
    /\ ~algs["H"].enabled
    /\ \E c \in OnList(connections) :
           /\ neurons[conns[c].from_neuron].activity > 0
           /\ neurons[conns[c].to_neuron].activity > 0

(* C9: an enabled HebbianLearning.update leaves every weight in            *)
(* [min_weight, max_weight]; on a connection whose pre and post activity   *)
(* are 1.0 it raises a weight that is below max_weight and never takes it  *)
(* above max_weight.                                                       *)
C9_Step ==
    LET c == last'
    IN  (IsUpdateCall(c) /\ algs[RanOn(c)].kind = "hebbian" /\ algs[RanOn(c)].enabled)
            => \A x \in OnList(connections) :
                   /\ conns'[x].weight >= MinWeight
                   /\ conns'[x].weight <= MaxWeight
                   /\ (/\ neurons[conns[x].from_neuron].activity = Scale
                       /\ neurons[conns[x].to_neuron].activity = Scale
                       /\ conns[x].weight < MaxWeight)
                          => conns'[x].weight > conns[x].weight

C9_HebbianGrowth == [][C9_Step]_vars

\* a weight has climbed from 1.0 to max_weight between two neurons at 1.0
C9_Witness ==
    /\ last.op = "manager_update"
    /\ \E x \in OnList(connections) :
           /\ neurons[conns[x].from_neuron].activity = Scale
           /\ neurons[conns[x].to_neuron].activity = Scale
           /\ conns[x].weight = MaxWeight

\* trace a is exactly half of trace b
HalfOf(a, b) == 2 * a.m * (2^(b.e)) = b.m * (2^(a.e))

WeightsUnchanged == \A x \in DOMAIN conns : conns'[x].weight = conns[x].weight

(* C10 as stated: RewardBasedLearning.apply_reward(0), enabled or not,     *)
(* leaves every weight unchanged and every trace at half its value.        *)
C10_Step ==
    LET c == last'
    IN  (IsRewardCall(c) /\ algs[RanOn(c)].kind = "reward" /\ c.a1 = 0)
            => /\ WeightsUnchanged
               /\ \A x \in DOMAIN algs[RanOn(c)].traces :
                      HalfOf(algs'[RanOn(c)].traces[x], algs[RanOn(c)].traces[x])

C10_AmendedStep ==
    LET c == last'
        o == RanOn(c)
    IN  (IsRewardCall(c) /\ algs[o].kind = "reward" /\ c.a1 = 0)
            => /\ WeightsUnchanged
               /\ algs[o].enabled =>
                      \A x \in DOMAIN algs[o].traces :
                          HalfOf(algs'[o].traces[x], algs[o].traces[x])
               /\ ~algs[o].enabled => algs'[o] = algs[o]

----------------------------------------------------------------------------
(* CentralHub (central_hub.py).  The hub object is the record of the       *)
(* fields its operations read and write; its neurons and the connections   *)
(* connect_to_regions creates live in neurons and conns with the others.   *)
(* A modulation weight is in WScale units, a readout entry in Scale units. *)

\* largest CentralHub.neuron_count constructed (20 in the program)
HubNeuronCount == 1

\* largest CentralHub.output_size constructed (4 in the program)
MaxOutput == 2

\* largest number of edges the random draws of one connect_to_regions produce
MaxHubConns == 1

MinModulation == WScale \div 10          \* max(0.1, ...)
MaxModulation == 2 * WScale              \* min(2.0, ...)
DefaultModulation == WScale              \* modulation_weights.get(region_id, 1.0)

NoWeights == [r \in {} |-> 0]

\* CentralHub(neuron_count = neuron_count, output_size = output_size)
CentralHub_init(neuron_count, output_size) ==
    [neuron_count |-> neuron_count, output_size |-> output_size,
     neurons |-> <<>>,
     state |-> [i \in 1..output_size |-> 0],
     region_connections |-> NoWeights,
     modulation_weights |-> NoWeights]

\* hub.neurons after _generate_neurons: range(neuron_count) is empty for a
\* count below 1
HubNeurons(neuron_count) == [i \in 1..neuron_count |-> <<"hub", i - 1>>]

\* the connections connect_to_regions makes are named hub_conn_<k> and
\* hub_internal_<k>; as numbers they follow the conn_<k> of the network
HubConnId(k) == NumRegions * NumRegions * NeuronCount * NeuronCount + k

\* the draws of connect_to_regions in program order: for each region and
\* each of its neurons a region -> hub draw, then a hub -> region draw, each
\* with a hub neuron from random.choice; then each ordered pair of distinct
\* hub neurons.  An entry is <<region or "hub", from, to>>.
HubRegionCandidates(regions, hn) ==
    LET per == 2 * Len(hn)
        all == [k \in 1..(Len(regions) * NeuronCount * per) |->
                   LET r == regions[((k - 1) \div (NeuronCount * per)) + 1]
                       i == ((k - 1) \div per) % NeuronCount
                       d == ((k - 1) \div Len(hn)) % 2
                       h == hn[((k - 1) % Len(hn)) + 1]
                   IN  IF d = 0 THEN <<r, <<r, i>>, h>> ELSE <<"to", h, <<r, i>>>>]
    IN  all

HubInternalCandidates(hn) ==
    LET all == [k \in 1..(Len(hn) * Len(hn)) |->
                   <<"hub", hn[((k - 1) \div Len(hn)) + 1], hn[((k - 1) % Len(hn)) + 1]>>]
    IN  SelectSeq(all, LAMBDA e : e[2] # e[3])

HubCandidates(regions, hn) == HubRegionCandidates(regions, hn) \o HubInternalCandidates(hn)

\* ids of the made edges that leave (side 2) or enter (side 3) neuron n
HubEndpointIds(edges, side, n) ==
    LET ids == SelectSeq([k \in 1..Len(edges) |-> k - 1],
                         LAMBDA c : edges[c + 1][side] = n)
    IN  [k \in 1..Len(ids) |-> HubConnId(ids[k])]

\* connect_to_regions(regions): drawn is the set of draws that made an edge.
\* The result is the hub, the neurons and the connection objects after the
\* call and the list the call returns.
CentralHub_connect_to_regions(h, ns, cs, regions, drawn) ==
    LET edges == SelectSeq(HubCandidates(regions, h.neurons), LAMBDA e : e \in drawn)
        named == {regions[k] : k \in 1..Len(regions)}
        made  == {HubConnId(k - 1) : k \in 1..Len(edges)}
    IN  [hub |-> [h EXCEPT
                    !.region_connections =
                        [r \in (DOMAIN @) \cup named |->
                            IF r \in named
                            THEN HubEndpointIds(edges, 1, r)
                            ELSE @[r]],
                    !.modulation_weights =
                        [r \in (DOMAIN @) \cup named |->
                            IF r \in named THEN DefaultModulation ELSE @[r]]],
         neurons |-> [n \in DOMAIN ns |->
                         [ns[n] EXCEPT
                            !.outgoing = @ \o HubEndpointIds(edges, 2, n),
                            !.incoming = @ \o HubEndpointIds(edges, 3, n)]],
         conns |-> [c \in (DOMAIN cs) \cup made |->
                       IF c \in made
                       THEN FreshConnection(edges[c - HubConnId(0) + 1][2],
                                            edges[c - HubConnId(0) + 1][3])
                       ELSE cs[c]],
         connections |-> [k \in 1..Len(edges) |-> HubConnId(k - 1)]]

\* the accumulator of aggregate (central_hub.py:145-148): entry i of the
\* enumeration goes to slot i % output_size; slots are numbered from 1 here
RECURSIVE Accumulate(_, _, _, _)
Accumulate(state, acts, k, output_size) ==
    IF k > Len(acts) THEN state
    ELSE Accumulate([state EXCEPT ![((k - 1) % output_size) + 1] = @ + acts[k]],
                    acts, k + 1, output_size)

RECURSIVE MaxOf(_, _)
MaxOf(seq, k) ==
    IF k > Len(seq) THEN 0
    ELSE IF k = Len(seq) THEN seq[k]
    ELSE Max(seq[k], MaxOf(seq, k + 1))

\* region.total_activity * weight for each region, in the order of the
\* mapping (central_hub.py:140-142); ta is total_activity of the regions
RegionActivities(h, regions, ta) ==
    [k \in 1..Len(regions) |->
        LET weight == IF regions[k] \in DOMAIN h.modulation_weights
                      THEN h.modulation_weights[regions[k]]
                      ELSE DefaultModulation
        IN  (ta[regions[k]] * weight) \div WScale]

\* the accumulator left as it is
Normalise_none(sums) == sums

\* the normalisation of central_hub.py:151-153
Normalise(sums) ==
    LET max_val == IF Len(sums) > 0 THEN MaxOf(sums, 1) ELSE Scale
    IN  IF max_val > 0
        THEN [i \in 1..Len(sums) |->
                 Min(Scale, (sums[i] * Scale) \div Max(max_val, Scale))]
        ELSE sums

\* aggregate(regions): the new self.state, which is also the list returned
CentralHub_aggregate(h, regions, ta) ==
    Normalise(Accumulate([i \in 1..h.output_size |-> 0],
                         RegionActivities(h, regions, ta), 1, h.output_size))

\* the adjustment without the clamp of central_hub.py:171-174
ModulatedWeight_unclamped(w, current, target_activity) ==
    w + (target_activity - current)

\* one region's weight after modulate_regions: diff * 0.01 in WScale units
\* is diff in Scale units
ModulatedWeight(w, current, target_activity) ==
    Max(MinModulation, Min(MaxModulation, w + (target_activity - current)))

\* modulate_regions(regions, target_activity): the new modulation_weights
CentralHub_modulate_regions(h, regions, ta, target_activity) ==
    LET named == {regions[k] : k \in 1..Len(regions)}
    IN  [r \in DOMAIN h.modulation_weights |->
            IF r \in named
            THEN ModulatedWeight(h.modulation_weights[r], ta[r], target_activity)
            ELSE h.modulation_weights[r]]

\* get_readout returning self.state itself
CentralHub_get_readout_alias(h) == [values |-> h.state, shared |-> TRUE]

\* get_readout: the list returned; shared tells whether it is the list
\* object self.state (it is a copy)
CentralHub_get_readout(h) == [values |-> h.state, shared |-> FALSE]

\* Network.get_state (network.py:336-350): the dictionary returned
Network_get_state(ta, signals, active) ==
    [regions |-> [r \in DOMAIN ta |->
                     [activity |-> ta[r], neuron_count |-> Len(RegionNeurons(r))]],
     stats |-> [total_signals |-> signals, active_neurons |-> active]]

----------------------------------------------------------------------------
(* SpecHub: the constructed Network and a CentralHub built beside it and   *)
(* connected to the network's regions, driven by Network.update and        *)
(* stimulate_region and by the hub's aggregate, modulate_regions and       *)
(* get_readout, Network.get_state, and a caller that writes into a list a  *)
(* call returned to it.                                                    *)

\* hub calls in one run, after the hub is built
MaxHub == 2

\* Network.update calls in one run of SpecHub
HubTicks == 2

HubNeuronCounts == {HubNeuronCount}
OutputSizes == 1..MaxOutput
RegionLists == {RegionIds, <<>>}
Targets == {Scale \div 2, 0 - 150 * Scale, 150 * Scale}
WrittenValues == {7}

HubCall(op, a1, flag, ret) ==
    /\ last' = Call(op, "hub", a1, 0, flag, ret)
    /\ calls' = [calls EXCEPT !.hub = @ + 1]

UnchangedNetwork ==
    UNCHANGED <<connections, total_activity, total_signals, active_neurons,
                algs, algorithms, active_algorithm, server>>

NewHub(neuron_count, output_size) ==
    /\ hub = NoHub
    /\ last.op = "init"
    /\ hub' = CentralHub_init(neuron_count, output_size)
    /\ last' = Call("hub_init", "hub", neuron_count, output_size, FALSE, <<>>)
    /\ UNCHANGED <<neurons, conns, calls>>
    /\ UnchangedNetwork

\* CentralHub.initialize: _generate_neurons appends the hub's neurons
HubInitialize ==
    /\ hub # NoHub
    /\ last.op = "hub_init"
    /\ hub' = [hub EXCEPT !.neurons = HubNeurons(hub.neuron_count)]
    /\ neurons' = [n \in (DOMAIN neurons) \cup
                          {<<"hub", i - 1>> : i \in 1..hub.neuron_count} |->
                      IF n \in DOMAIN neurons
                      THEN neurons[n]
                      ELSE FreshNeuron(Half, <<>>, <<>>)]
    /\ last' = Call("hub_initialize", "hub", 0, 0, FALSE, <<>>)
    /\ UNCHANGED <<conns, calls>>
    /\ UnchangedNetwork

ConnectToRegions ==
    /\ hub # NoHub
    /\ last.op = "hub_initialize"
    /\ \E drawn \in SubsetsUpTo({HubCandidates(RegionIds, hub.neurons)[k] :
                                    k \in 1..Len(HubCandidates(RegionIds, hub.neurons))},
                                MaxHubConns) :
           \E r \in {CentralHub_connect_to_regions(hub, neurons, conns,
                                                   RegionIds, drawn)} :
               /\ hub' = r.hub
               /\ neurons' = r.neurons
               /\ conns' = r.conns
               /\ last' = Call("connect_to_regions", "hub", 0, 0, FALSE, r.connections)
    /\ UNCHANGED calls
    /\ UnchangedNetwork

Aggregate(regions) ==
    /\ hub # NoHub
    /\ calls.hub < MaxHub
    /\ \E state \in {CentralHub_aggregate(hub, regions, total_activity)} :
           /\ hub' = [hub EXCEPT !.state = state]
           /\ HubCall("aggregate", regions, TRUE, state)
    /\ UNCHANGED <<neurons, conns>>
    /\ UnchangedNetwork

ModulateRegions(regions, target_activity) ==
    /\ hub # NoHub
    /\ calls.hub < MaxHub
    /\ hub' = [hub EXCEPT !.modulation_weights =
                   CentralHub_modulate_regions(hub, regions, total_activity,
                                               target_activity)]
    /\ HubCall("modulate_regions", target_activity, FALSE, regions)
    /\ UNCHANGED <<neurons, conns>>
    /\ UnchangedNetwork

GetReadout ==
    /\ hub # NoHub
    /\ calls.hub < MaxHub
    /\ \E r \in {CentralHub_get_readout(hub)} :
           HubCall("get_readout", 0, r.shared, r.values)
    /\ UNCHANGED <<neurons, conns, hub, server>>
    /\ UnchangedNetwork

GetState ==
    /\ calls.hub < MaxHub
    /\ HubCall("get_state", 0, FALSE,
               <<Network_get_state(total_activity, total_signals, active_neurons)>>)
    /\ UNCHANGED <<neurons, conns, hub, server>>
    /\ UnchangedNetwork

\* the caller assigns value to entry i of the list the last call returned;
\* the hub's list changes with it when the two are the same object
CallerWrite(i, value) ==
    /\ last.op \in {"aggregate", "get_readout"}
    /\ calls.hub < MaxHub
    /\ i \in 1..Len(last.ret)
    /\ last' = [last EXCEPT !.op = "caller_write", !.nid = last.op, !.a1 = i,
                            !.a2 = value, !.ret = [@ EXCEPT ![i] = value]]
    /\ calls' = [calls EXCEPT !.hub = @ + 1]
    /\ hub' = IF last.flag THEN [hub EXCEPT !.state = [@ EXCEPT ![i] = value]] ELSE hub
    /\ UNCHANGED <<neurons, conns>>
    /\ UnchangedNetwork

NextHub ==
    \/ Tick(1, HubTicks)
    \/ \E region_id \in RegionSet : StimulateRegion(region_id, Scale, LearnDrive)
    \/ \E neuron_count \in HubNeuronCounts, output_size \in OutputSizes :
           NewHub(neuron_count, output_size)
    \/ HubInitialize
    \/ ConnectToRegions
    \/ \E regions \in RegionLists : Aggregate(regions)
    \/ \E target_activity \in Targets : ModulateRegions(RegionIds, target_activity)
    \/ GetReadout
    \/ GetState
    \/ \E i \in 1..MaxOutput, value \in WrittenValues : CallerWrite(i, value)

\* the random draws of the network's construction made at most this many edges
HubNetConns == 1

InitHub == InitNetwork /\ Len(connections) <= HubNetConns

SpecHub == InitHub /\ [][NextHub]_vars

----------------------------------------------------------------------------
(* Claims about the CentralHub, checked in SpecHub *)

ListSet(seq) == {seq[k] : k \in 1..Len(seq)}

ModulationInRange(h) ==
    h # NoHub =>
        \A r \in DOMAIN h.modulation_weights :
            /\ h.modulation_weights[r] >= MinModulation
            /\ h.modulation_weights[r] <= MaxModulation

C12_Step ==
    /\ ModulationInRange(hub')
    /\ (last'.op = "modulate_regions" /\ calls'.hub = calls.hub + 1) =>
           \A r \in DOMAIN hub.modulation_weights :
               LET old == hub.modulation_weights[r]
                   new == hub'.modulation_weights[r]
                   target_activity == last'.a1
               IN  /\ new = Max(MinModulation,
                                Min(MaxModulation,
                                    old + (target_activity - total_activity[r])))
                   /\ total_activity[r] < target_activity => new >= old
                   /\ total_activity[r] > target_activity => new <= old

(* C12: once connect_to_regions has run, every region's modulation weight  *)
(* is in [0.1, 2.0] after any sequence of modulate_regions calls and       *)
(* ticks; one modulate_regions call moves a region's weight by             *)
(* (target_activity - total_activity) * 0.01 and clamps it, so the weight  *)
(* does not decrease when the region's activity is below the target and    *)
(* does not increase when it is above.                                     *)
C12_ModulationBounds == [][C12_Step]_vars

\* after a tick, modulate_regions has lowered the weight of a region whose
\* activity is above the target, without reaching the clamp
C12_Witness ==
    /\ last.op = "modulate_regions"
    /\ calls.ticks > 0
    /\ \E r \in DOMAIN hub.modulation_weights :
           /\ total_activity[r] > last.a1
           /\ hub.modulation_weights[r] < DefaultModulation
           /\ hub.modulation_weights[r] > MinModulation

----------------------------------------------------------------------------
(* SpecRegion: the sensory Region of a network with its neuron_count taken *)
(* from a set, driven by Region.update and Network.inject_input.  No edge  *)
(* was drawn to or from the region, and the other regions, which these     *)
(* two calls do not read or write for it, are left out.                    *)

\* largest Region.neuron_count of SpecRegion: one more than inject_input reads
MaxSensory == InjectLimit + 1

\* longest data list: longer than the region and than data[:10]
MaxData == InjectLimit + 2

\* Region.update calls in one run of SpecRegion
RegionTicks == 4

\* inject_input calls in one run of SpecRegion
RegionDrive == 2

SensoryCounts == {0, 1, 3, MaxSensory}

\* data[i] is 0.3 * (i + 1), so every index carries its own value; the
\* first neuron reaches the threshold with the second injection, the others
\* with the first
DataOf(len) == [k \in 1..len |-> k * ((3 * Scale) \div 10)]
DataLists == {DataOf(2), DataOf(InjectLimit), DataOf(MaxData)}

\* region.neurons of the sensory region in this state
SensoryMembers(ns) == [i \in 1..Cardinality(DOMAIN ns) |-> <<"sensory", i - 1>>]

InitRegion ==
    /\ \E count \in SensoryCounts :
           neurons = [n \in {<<"sensory", i - 1>> : i \in 1..count} |->
                         FreshNeuron(Half, <<>>, <<>>)]
    /\ conns = <<>>
    /\ connections = <<>>
    /\ total_activity = [r \in {"sensory"} |-> 0]
    /\ total_signals = 0
    /\ active_neurons = 0
    /\ NoLearning
    /\ hub = NoHub
    /\ last = NoCall
    /\ calls = NoCalls
    /\ server = ServerStart

\* region.update() on the sensory region; ret holds the value returned
RegionUpdate ==
    /\ calls.ticks < RegionTicks
    /\ \E st \in {Region_update(NetState, "sensory", SensoryMembers(neurons))} :
           /\ neurons' = st.neurons
           /\ total_activity' = st.total_activity
           /\ last' = [Call("region_update", "sensory", 0, 0, st.fired # {},
                            <<st.total_activity["sensory"]>>)
                          EXCEPT !.fired = st.fired]
    /\ calls' = [calls EXCEPT !.ticks = @ + 1]
    /\ UNCHANGED <<conns, connections, total_signals, active_neurons, hub, server>>
    /\ UnchangedLearning

NextRegion ==
    \/ RegionUpdate
    \/ \E data \in DataLists : InjectInput(data, RegionDrive)

SpecRegion == InitRegion /\ [][NextRegion]_vars

(* C13: Region.update updates each neuron of the region exactly once and   *)
(* sets, and returns, total_activity as the arithmetic mean of the         *)
(* neurons' activities after their update (rounded down to a unit of the   *)
(* fixed-point scale); on a region without neurons it returns 0 and        *)
(* raises nothing.                                                         *)
C13_Step ==
    (last'.op = "region_update" /\ calls'.ticks = calls.ticks + 1) =>
        LET members == SensoryMembers(neurons)
            count == Len(members)
            sum == SumActivity(neurons', members, 1)
        IN  /\ DOMAIN neurons' = DOMAIN neurons
            /\ \A n \in DOMAIN neurons :
                   neurons'[n] = Neuron_update(neurons[n], DefaultDecay).n
            /\ last'.ret = <<total_activity'["sensory"]>>
            /\ count > 0 =>
                   /\ total_activity'["sensory"] * count <= sum
                   /\ sum < (total_activity'["sensory"] + 1) * count
            /\ count = 0 => total_activity'["sensory"] = 0

C13_RegionMean == [][C13_Step]_vars

\* update has run on a region of three neurons with different activities
C13_Witness ==
    /\ last.op = "region_update"
    /\ Cardinality(DOMAIN neurons) = 3
    /\ \E a, b \in DOMAIN neurons :
           neurons[a].activity > neurons[b].activity /\ neurons[b].activity > 0
    /\ total_activity["sensory"] > 0

\* update has run on a region without neurons
C13_WitnessEmpty ==
    /\ last.op = "region_update"
    /\ DOMAIN neurons = {}
    /\ last.ret = <<0>>

\* the number of values inject_input hands out
Injected(ns, data) == Min(InjectLimit, Min(Len(data), Cardinality(DOMAIN ns)))

C17_Step ==
    (last'.op = "inject_input" /\ calls'.drive = calls.drive + 1) =>
        LET data == last'.ret
        IN  /\ DOMAIN neurons' = DOMAIN neurons
            /\ \A n \in DOMAIN neurons :
                   neurons'[n] =
                       IF n[1] = "sensory" /\ n[2] < Injected(neurons, data)
                       THEN [neurons[n] EXCEPT !.potential = @ + data[n[2] + 1]]
                       ELSE neurons[n]
            /\ UNCHANGED <<conns, connections, total_activity, total_signals,
                           active_neurons, algs, algorithms, active_algorithm, hub, server>>

(* C17: Network.inject_input(values) adds values[i] to the potential of    *)
(* the i-th sensory neuron for every i below min(10, len(values), number   *)
(* of sensory neurons), refractory or not, and changes no other potential  *)
(* and no activity, refractory count, weight, signal or counter.           *)
C17_InjectFrame == [][C17_Step]_vars

\* twelve values were injected into a region of eleven neurons, some of
\* them refractory: the first ten hold potential, the eleventh none
C17_Witness ==
    /\ last.op = "inject_input"
    /\ Len(last.ret) = MaxData
    /\ Cardinality(DOMAIN neurons) = MaxSensory
    /\ \E n \in DOMAIN neurons : neurons[n].refractory > 0 /\ neurons[n].potential > 0
    /\ neurons[<<"sensory", InjectLimit - 1>>].potential > 0
    /\ neurons[<<"sensory", InjectLimit>>].potential = 0

C14_Step ==
    /\ (last'.op \in {"get_state", "get_readout"} /\ calls'.hub = calls.hub + 1) =>
           /\ UNCHANGED <<neurons, conns, connections, total_activity, total_signals,
                          active_neurons, algs, algorithms, active_algorithm, hub>>
           /\ last'.op = "get_readout" => last'.ret = hub.state
    /\ (/\ last'.op = "caller_write" /\ last'.nid = "get_readout"
        /\ calls'.hub = calls.hub + 1) =>
           UNCHANGED <<neurons, conns, connections, total_activity, total_signals,
                       active_neurons, algs, algorithms, active_algorithm, hub>>

(* C14: Network.get_state and CentralHub.get_readout change no neuron      *)
(* field, connection weight, signal list, counter, readout vector or       *)
(* modulation weight; get_readout returns the readout in a list of its     *)
(* own, so that a caller writing into that list leaves the hub's state as  *)
(* it was.                                                                 *)
C14_ReadOnlyViews == [][C14_Step]_vars

\* the caller wrote into the list get_readout returned, which now differs
\* from the hub's state
C14_Witness ==
    /\ last.op = "caller_write"
    /\ last.nid = "get_readout"
    /\ last.ret # hub.state
    /\ last.ret[last.a1] = last.a2

----------------------------------------------------------------------------
(* SpecConfig: the network with learning algorithms and a hub constructed  *)
(* from parameters the caller chose, valid or not, then used as in         *)
(* SpecLearn.  No constructor of the program tests its parameters; each    *)
(* stores them and returns the object.                                     *)

\* learning calls in one run of SpecConfig
ConfigCalls == 3

\* <<max_weight, min_weight>>: the defaults, and a min_weight of 3.0 above a
\* max_weight of 2.0
WeightBounds == {<<MaxWeight, MinWeight>>, <<2 * WScale, 3 * WScale>>}

\* neuron_count given to CentralHub
ConfigNeuronCounts == {0 - 1, HubNeuronCount}

InitConfig ==
    /\ \E drawn \in SubsetsUpTo(CandidateSet, HubNetConns), b \in WeightBounds :
           LET t == Network_create_connections(drawn)
           IN  /\ neurons = t.neurons
               /\ conns = t.conns
               /\ connections = t.connections
               /\ algs = [o \in {"H", "R"} |->
                             IF o = "R"
                             THEN RewardBasedLearning_init(t.connections, b[1], b[2])
                             ELSE HebbianLearning_init(b[1], b[2])]
    /\ total_activity = [r \in RegionSet |-> 0]
    /\ total_signals = 0
    /\ active_neurons = 0
    /\ algorithms = [x \in {"hebbian", "reward"} |->
                        IF x = "hebbian" THEN "H" ELSE "R"]
    /\ active_algorithm = None
    /\ hub = NoHub
    /\ last = NoCall
    /\ calls = NoCalls
    /\ server = ServerStart

NextConfig ==
    \/ Tick(1, LearnTicks)
    \/ \E region_id \in RegionSet : StimulateRegion(region_id, Scale, LearnDrive)
    \/ \E name \in {"hebbian", "reward"} : SetActive(name, ConfigCalls)
    \/ ManagerUpdate(ConfigCalls)
    \/ ManagerApplyReward(Scale, ConfigCalls)
    \/ \E neuron_count \in ConfigNeuronCounts : NewHub(neuron_count, 1)
    \/ HubInitialize

SpecConfig == InitConfig /\ [][NextConfig]_vars

(* C15: construction from invalid parameters fails and yields no usable    *)
(* object: a learning algorithm whose min_weight is above its max_weight   *)
(* is never enabled and no update leaves a connection weight at that       *)
(* min_weight, and a hub with a negative neuron_count is never             *)
(* initialized.                                                            *)
C15_InvalidConfigRejected ==
    /\ \A o \in DOMAIN algs :
           algs[o].min_weight > algs[o].max_weight =>
               /\ ~algs[o].enabled
               /\ \A c \in DOMAIN conns : conns[c].weight # algs[o].min_weight
    /\ (hub # NoHub /\ last.op = "hub_initialize") => hub.neuron_count >= 0

\* with valid bounds every weight stays between them
C15_ValidBoundsHold ==
    \A o \in DOMAIN algs, c \in DOMAIN conns :
        algs[o].min_weight <= algs[o].max_weight =>
            /\ conns[c].weight >= algs[o].min_weight
            /\ conns[c].weight <= algs[o].max_weight

----------------------------------------------------------------------------
(* SpecKeys: the network and its learning manager addressed by keys the    *)
(* caller supplies, known and unknown: stimulate_region by region id and   *)
(* set_active by algorithm name, between ticks.                            *)

\* stimulate_region calls, and set_active calls, in one run of SpecKeys
KeyCalls == 2

NextKeys ==
    \/ Tick(1, LearnTicks)
    \/ \E region_id \in RegionKeys : StimulateRegion(region_id, Scale, KeyCalls)
    \/ \E name \in ActiveNames : SetActive(name, KeyCalls)

SpecKeys == InitNetwork /\ [][NextKeys]_vars

C16_Step ==
    /\ (/\ last'.op = "stimulate_region" /\ calls'.drive = calls.drive + 1
        /\ last'.nid \notin RegionSet) =>
           /\ UNCHANGED <<neurons, conns, connections, total_activity, total_signals,
                          active_neurons, algs, algorithms, active_algorithm, hub>>
           /\ \A known \in RegionSet :
                  last'.outcome # Network_stimulate_region_outcome(known)
    /\ (/\ last'.op = "set_active" /\ calls'.learn = calls.learn + 1
        /\ last'.nid \notin DOMAIN algorithms) =>
           /\ UNCHANGED <<neurons, conns, connections, total_activity, total_signals,
                          active_neurons, algs, algorithms, active_algorithm, hub>>
           /\ \A known \in DOMAIN algorithms :
                  last'.outcome # Manager_set_active_outcome(algorithms, known)

(* C16: Network.stimulate_region with a region id the network does not     *)
(* have, and LearningManager.set_active with a name that is not            *)
(* registered, raise nothing, leave all state unchanged, and give the      *)
(* caller an outcome that differs from the outcome of a successful call.   *)
C16_UnknownKeyReported == [][C16_Step]_vars

C16_FrameStep ==
    (\/ /\ last'.op = "stimulate_region" /\ calls'.drive = calls.drive + 1
        /\ last'.nid \notin RegionSet
     \/ /\ last'.op = "set_active" /\ calls'.learn = calls.learn + 1
        /\ last'.nid \notin DOMAIN algorithms) =>
        /\ UNCHANGED <<neurons, conns, connections, total_activity, total_signals,
                       active_neurons, algs, algorithms, active_algorithm, hub>>
        /\ last'.outcome = None

\* the part of C16 the program keeps: the call on an unknown key raises
\* nothing and changes nothing
C16_UnknownKeyNoOp == [][C16_FrameStep]_vars

----------------------------------------------------------------------------
(* Claims about the order of the steps of Network.update, checked in Spec *)

\* neuron n of id after the receive_input calls of the deliveries made to
\* it, in the order they were made, from delivery k
RECURSIVE AfterDeliveries(_, _, _, _)
AfterDeliveries(n, id, deliveries, k) ==
    IF k > Len(deliveries) THEN n
    ELSE AfterDeliveries(IF deliveries[k].to = id
                         THEN Neuron_receive_input(n, deliveries[k].amount,
                                                   deliveries[k].weight)
                         ELSE n,
                         id, deliveries, k + 1)

\* the signals on connection c that the call put there
NewOn(c, emitted, cs) ==
    {k \in 1..Len(cs[c].signals) : cs[c].signals[k].sid \in emitted}

C18_Step ==
    (last'.op = "network_update" /\ calls'.ticks = calls.ticks + 1) =>
        /\ \A n \in NeuronIds :
               neurons'[n] =
                   Neuron_update(AfterDeliveries(neurons[n], n, last'.ret, 1),
                                 DefaultDecay).n
        /\ \A c \in OnList(connections) :
               LET from == neurons'[conns[c].from_neuron]
                   new  == NewOn(c, last'.emitted, conns')
               IN  /\ Cardinality(new) = (IF from.activity > EmitLevel THEN 1 ELSE 0)
                   /\ \A k \in new :
                          /\ conns'[c].signals[k].strength = from.activity
                          /\ conns'[c].signals[k].progress = DblZero
                          /\ k = Len(conns'[c].signals)

(* C18: in one Network.update call every connection is advanced and its    *)
(* arrived signals are delivered before any neuron is updated, each        *)
(* region neuron is updated exactly once, a neuron's signals are emitted   *)
(* after its own update in this call, and a signal emitted in the call is  *)
(* not advanced in it: its progress is 0 when the call returns.            *)
C18_StepOrder == [][C18_Step]_vars

\* an update delivered a signal to a neuron that was not refractory, the
\* neuron fired in the same call, and signals were emitted in it
C18_Witness ==
    /\ last.op = "network_update"
    /\ \E j \in 1..Len(last.ret) :
           ~last.ret[j].blocked /\ last.ret[j].to \in last.fired
    /\ last.emitted # {}

\* delivered input of this call took neuron n, which was not refractory,
\* from below its threshold to or above it
CrossedByDelivery(n, deliveries) ==
    /\ neurons[n].refractory <= 0
    /\ neurons[n].potential < neurons[n].threshold
    /\ AfterDeliveries(neurons[n], n, deliveries, 1).potential >= neurons[n].threshold

C19_Step ==
    (last'.op = "network_update" /\ calls'.ticks = calls.ticks + 1) =>
        \A n \in NeuronIds :
            CrossedByDelivery(n, last'.ret) =>
                \A k \in 1..Len(neurons[n].outgoing) :
                    NewOn(neurons[n].outgoing[k], last'.emitted, conns') = {}

(* C19 as stated: when delivered input brings a non-refractory neuron's    *)
(* potential to or above its threshold during Network.update call t, no    *)
(* new signal is on its outgoing connections when call t returns; the      *)
(* signals appear during call t+1.                                         *)
C19_OneTickLatency == [][C19_Step]_vars

C19_AmendedStep ==
    (last'.op = "network_update" /\ calls'.ticks = calls.ticks + 1) =>
        /\ \A n \in NeuronIds :
               CrossedByDelivery(n, last'.ret) =>
                   /\ n \in last'.fired
                   /\ neurons'[n].activity = Scale
                   /\ \A k \in 1..Len(neurons[n].outgoing) :
                          LET c == neurons[n].outgoing[k]
                          IN  /\ Cardinality(NewOn(c, last'.emitted, conns')) = 1
                              /\ \A j \in NewOn(c, last'.emitted, conns') :
                                     /\ conns'[c].signals[j].progress = DblZero
                                     /\ conns'[c].signals[j].strength = Scale
        /\ \A c \in OnList(connections) :
               \A k \in 1..Len(conns[c].signals) :
                   conns[c].signals[k].progress = DblZero =>
                       LET moved == DblAdd(DblZero, DblMulInt(DblBaseSpeed, last'.a1))
                           g     == conns[c].signals[k]
                       IN  IF DblGE(moved, DblOne)
                           THEN \E j \in 1..Len(last'.ret) : last'.ret[j].sid = g.sid
                           ELSE \E j \in 1..Len(conns'[c].signals) :
                                    /\ conns'[c].signals[j].sid = g.sid
                                    /\ conns'[c].signals[j].progress = moved

(* C19, amended: when delivered input brings a non-refractory neuron's     *)
(* potential to or above its threshold during Network.update call t, the   *)
(* neuron fires in call t and each of its outgoing connections holds one   *)
(* new signal of strength 1.0 and progress 0 when call t returns; a        *)
(* signal at progress 0 is first advanced by the next call.                *)
C19_SameCallEmission == [][C19_AmendedStep]_vars

\* a delivery made a neuron with outgoing connections fire, and its new
\* signals are on those connections at progress 0
C19_Witness ==
    /\ last.op = "network_update"
    /\ \E j \in 1..Len(last.ret) :
           LET n == last.ret[j].to
           IN  /\ ~last.ret[j].blocked
               /\ n \in last.fired
               /\ neurons[n].outgoing # <<>>
               /\ \A k \in 1..Len(neurons[n].outgoing) :
                      \E g \in NewOn(neurons[n].outgoing[k], last.emitted, conns) :
                          conns[neurons[n].outgoing[k]].signals[g].progress = DblZero

----------------------------------------------------------------------------
(* Claims about the generated topology *)

RegionIndex(r) == CHOOSE k \in 1..NumRegions : RegionIds[k] = r

(* C20 as stated: every ordered pair (a, b) of distinct neurons is a       *)
(* candidate edge a -> b of topology generation, so that between two       *)
(* regions edges can be generated in both directions, and no generated     *)
(* edge has from_neuron = to_neuron.                                       *)
C20_EveryOrderedPair ==
    /\ \A a \in NeuronIds, b \in NeuronIds : a # b => <<a, b>> \in CandidateSet
    /\ \A c \in OnList(connections) : conns[c].from_neuron # conns[c].to_neuron

(* C20, amended: the candidate edges of topology generation are the        *)
(* ordered pairs of distinct neurons of one region, and the pairs (a, b)   *)
(* with a in a region that comes before b's region in the order of the     *)
(* region mapping; so a generated inter-region edge always leads from the  *)
(* earlier region to the later one, never back, and no generated edge has  *)
(* from_neuron = to_neuron.                                                *)
C20_ForwardEdgesOnly ==
    /\ \A a \in NeuronIds, b \in NeuronIds :
           <<a, b>> \in CandidateSet <=>
               \/ a[1] = b[1] /\ a # b
               \/ RegionIndex(a[1]) < RegionIndex(b[1])
    /\ \A c \in OnList(connections) :
           LET a == conns[c].from_neuron
               b == conns[c].to_neuron
           IN  /\ a # b
               /\ <<a, b>> \in CandidateSet
               /\ RegionIndex(a[1]) <= RegionIndex(b[1])

\* a generated topology with an edge inside a region and an edge from the
\* earlier region to the later one
C20_Witness ==
    /\ \E c \in OnList(connections) :
           conns[c].from_neuron[1] = conns[c].to_neuron[1]
    /\ \E c \in OnList(connections) :
           RegionIndex(conns[c].from_neuron[1]) < RegionIndex(conns[c].to_neuron[1])


----------------------------------------------------------------------------
(* SpecLong: the constructed Network over a run long enough for a neuron   *)
(* to fire, sit out its refractory period and fire again, driven by        *)
(* Network.update and stimulate_region.                                    *)

\* Network.update calls in one run of SpecLong
LongTicks == 7

\* stimulate_region calls in one run of SpecLong
LongDrive == 2

LongMultipliers == {1, 50}

NextLong ==
    \/ \E speed_multiplier \in LongMultipliers : Tick(speed_multiplier, LongTicks)
    \/ \E region_id \in RegionSet : StimulateRegion(region_id, Scale, LongDrive)

SpecLong == InitNetwork /\ [][NextLong]_vars


\* a step that is one Network.update call
IsTick == last'.op = "network_update" /\ calls'.ticks = calls.ticks + 1

\* the neurons that have fired in some Network.update call so far, and the
\* number of the latest call in which one of them fired
HasFired == DOMAIN calls.fired_at
LastFire(id) == calls.fired_at[id][Len(calls.fired_at[id])]

\* C21: a neuron that has fired and does not fire in this Network.update call
\* has its activity lowered by the call for as long as it is above 0.1, so
\* that it eventually falls to 0.1 or below and the neuron stops being counted
\* in active_neurons
C21_Step ==
    IsTick =>
        \A id \in HasFired \ last'.fired :
            neurons[id].activity > ActiveLevel =>
                neurons'[id].activity < neurons[id].activity

C21_ActivityDecaysOut == [][C21_Step]_vars

\* activity after k refractory countdowns
RECURSIVE AfterCountdowns(_, _)
AfterCountdowns(n, k) ==
    IF k = 0 THEN n.activity ELSE AfterCountdowns(Neuron_countdown(n), k - 1)

\* the activity a fired neuron is left with when its refractory period is over
StallLevel ==
    LET f == Neuron_fire(FreshNeuron(Half, <<>>, <<>>)).n
    IN  AfterCountdowns(f, f.refractory)

\* C21 as the code has it: a Network.update call in which the neuron does not
\* fire multiplies its activity by 0.8 only while refractory > 0 and leaves it
\* alone otherwise, so a neuron that has fired never falls below 0.8^5 of 1.0,
\* which is above 0.1, and active_neurons counts every neuron that has ever fired
C21_AmendedStep ==
    IsTick =>
        /\ \A id \in NeuronIds \ last'.fired :
               neurons'[id].activity =
                   IF neurons[id].refractory > 0
                   THEN (neurons[id].activity * 4) \div 5
                   ELSE neurons[id].activity
        /\ \A id \in DOMAIN calls'.fired_at :
               /\ neurons'[id].activity >= StallLevel
               /\ neurons'[id].activity > ActiveLevel
        /\ active_neurons' = Cardinality(DOMAIN calls'.fired_at)

C21_ActivityStalls == [][C21_AmendedStep]_vars

\* a neuron fired seven calls ago, is out of its refractory period, sits at the
\* stall level and is still counted
C21_Witness ==
    /\ last.op = "network_update"
    /\ \E id \in HasFired :
           /\ calls.ticks - LastFire(id) >= 6
           /\ neurons[id].refractory = 0
           /\ neurons[id].activity = StallLevel
           /\ neurons[id].activity > ActiveLevel
    /\ active_neurons >= 1


----------------------------------------------------------------------------
(* SpecQuiet: the constructed Network driven by Network.update alone and   *)
(* read with get_state.                                                    *)

\* Network.update calls in one run of SpecQuiet
QuietTicks == 6

NextQuiet ==
    \/ \E speed_multiplier \in SpeedMultipliers : Tick(speed_multiplier, QuietTicks)
    \/ GetState

SpecQuiet == InitNetwork /\ [][NextQuiet]_vars

\* C22: a fresh Network driven only by Network.update stays quiescent: no
\* neuron has fired, no connection carries a signal, total_signals = 0 and
\* active_neurons = 0 after every tick, and get_state reports one entry per
\* catalog region with the neuron_count of construction
C22_Quiescent ==
    /\ HasFired = {}
    /\ \A id \in NeuronIds :
           /\ neurons[id].activity = 0
           /\ neurons[id].refractory = 0
           /\ neurons[id].potential = 0
    /\ \A c \in DOMAIN conns : conns[c].signals = <<>>
    /\ total_signals = 0
    /\ active_neurons = 0
    /\ last.op = "network_update" =>
           /\ last.fired = {}
           /\ last.emitted = {}
           /\ last.ret = <<>>
    /\ last.op = "get_state" =>
           /\ DOMAIN last.ret[1].regions = RegionSet
           /\ Cardinality(DOMAIN last.ret[1].regions) = NumRegions
           /\ \A r \in RegionSet :
                  last.ret[1].regions[r].neuron_count = NeuronCount
           /\ last.ret[1].stats = [total_signals |-> 0, active_neurons |-> 0]

\* get_state read after the last of the updates
C22_Witness ==
    /\ last.op = "get_state"
    /\ calls.ticks = QuietTicks
    /\ connections # <<>>


\* the calls of update a neuron sits out after a fire (network.py:63)
RefractoryPeriod == Neuron_fire(FreshNeuron(Half, <<>>, <<>>)).n.refractory

\* C23, the firing rate: two fires of one region neuron are at least 5
\* Network.update calls apart, so it fires at most once in any 5 consecutive
\* calls, whatever is stimulated or delivered in between
C23_FireSpacing ==
    \A id \in HasFired :
        \A i, j \in 1..Len(calls.fired_at[id]) :
            i < j => calls.fired_at[id][j] - calls.fired_at[id][i] >= 5

\* C23, the emission: Network.update puts one new signal on each outgoing
\* connection of a neuron that fired in the call and none on the outgoing
\* connections of a neuron that did not
C23_Step ==
    IsTick =>
        /\ \A id \in NeuronIds :
               \A k \in 1..Len(neurons[id].outgoing) :
                   Cardinality(NewOn(neurons[id].outgoing[k], last'.emitted, conns'))
                       = (IF id \in last'.fired THEN 1 ELSE 0)
        /\ \A id \in last'.fired \cap HasFired :
               calls'.ticks - LastFire(id) >= RefractoryPeriod
        /\ C23_FireSpacing'

\* C23: a region neuron fires at most once in any 5 consecutive
\* Network.update calls, and Network.update emits on a neuron's outgoing
\* connections in exactly the calls in which the neuron fired, one signal per
\* outgoing connection
C23_FireRateAndEmission == [][C23_Step]_vars

\* a neuron with two outgoing connections has just fired for the second time,
\* five calls after the first, and the call emitted on both connections
C23_Witness ==
    /\ last.op = "network_update"
    /\ \E id \in last.fired :
           /\ Len(calls.fired_at[id]) = 2
           /\ calls.fired_at[id][2] - calls.fired_at[id][1] = 5
           /\ Len(neurons[id].outgoing) = 2
           /\ \A k \in 1..2 :
                  Cardinality(NewOn(neurons[id].outgoing[k], last.emitted, conns)) = 1


\* the signals in flight: the pairs of a connection and the index of a signal
\* in its list
InFlight ==
    UNION {{<<c, k>> : k \in 1..Len(conns[c].signals)} : c \in DOMAIN conns}

\* the places signal sid is at: in flight on a connection, or in the record
\* of the arrivals processed
PlacesOf(sid) ==
    {p \in InFlight : conns[p[1]].signals[p[2]].sid = sid}
        \cup {<<"arrived", j>> : j \in {i \in 1..Len(calls.arrived) :
                                           calls.arrived[i].sid = sid}}

\* C24, the count: total_signals is the number of signals in flight plus the
\* number of arrivals processed, and each signal emitted so far is in exactly
\* one place: it is in flight once, or it arrived once, at the to_neuron of
\* the connection that carried it
C24_Balance ==
    /\ total_signals = Cardinality(InFlight) + Len(calls.arrived)
    /\ \A sid \in 1..total_signals : Cardinality(PlacesOf(sid)) = 1
    /\ \A j \in 1..Len(calls.arrived) :
           /\ calls.arrived[j].sid \in 1..total_signals
           /\ calls.arrived[j].to = conns[calls.arrived[j].conn].to_neuron

\* C24, the steps: no call lowers total_signals, a signal stays on the
\* connection it was emitted on until it arrives, and Network.update hands
\* each signal that arrives in the call to receive_input of the to_neuron of
\* that connection
C24_Step ==
    /\ total_signals' >= total_signals
    /\ \A c \in DOMAIN conns' :
           \A k \in 1..Len(conns'[c].signals) :
               LET sid == conns'[c].signals[k].sid
               IN  \/ sid > total_signals
                   \/ \E i \in 1..Len(conns[c].signals) : conns[c].signals[i].sid = sid
    /\ IsTick =>
           /\ Len(calls'.arrived) = Len(calls.arrived) + Len(last'.ret)
           /\ \A j \in 1..Len(last'.ret) :
                  LET g == last'.ret[j]
                  IN  /\ \E i \in 1..Len(conns[g.conn].signals) :
                             conns[g.conn].signals[i].sid = g.sid
                      /\ g.to = conns[g.conn].to_neuron
                      /\ \A i \in 1..Len(last'.ret) : last'.ret[i].sid = g.sid => i = j
           /\ \A id \in NeuronIds :
                  neurons'[id] =
                      Neuron_update(AfterDeliveries(neurons[id], id, last'.ret, 1),
                                    DefaultDecay).n
    /\ C24_Balance'

\* C24: signals are conserved: total_signals never decreases and equals the
\* signals in flight plus the arrivals processed so far, and every emitted
\* signal is handed to receive_input of its connection's to_neuron exactly
\* once, never duplicated and never delivered to another neuron
C24_SignalsConserved == [][C24_Step]_vars

\* signals have arrived in two different calls while others are in flight
C24_Witness ==
    /\ last.op = "network_update"
    /\ Len(last.ret) >= 1
    /\ Len(calls.arrived) > Len(last.ret)
    /\ InFlight # {}
    /\ total_signals >= 3


----------------------------------------------------------------------------
(* SpecServer: the event loop of main.py running simulation_loop and one   *)
(* websocket_endpoint call per websocket.  Each action is the code one     *)
(* task runs from the await it was suspended at to its next await; which   *)
(* suspended task runs next is the event loop's choice.                    *)

\* messages received and simulation_loop wake-ups in one run
MaxMessages == 2

ControlActions == {"play", "pause", "step", "reset"}
SpeedValues == {2}

UnchangedSimulation ==
    UNCHANGED <<neurons, conns, connections, total_activity, total_signals,
                active_neurons, algs, algorithms, active_algorithm, hub,
                last, calls>>

\* accept returns and the websocket is appended (main.py:42-43)
Accept(ws) ==
    /\ server.handlers[ws] = "new"
    /\ server' = [server EXCEPT !.connections = Append(@, ws),
                                !.handlers[ws] = "receiving"]
    /\ UnchangedSimulation

\* receive_text raises WebSocketDisconnect (main.py:76-77)
Disconnect(ws) ==
    /\ server.handlers[ws] = "receiving"
    /\ server' = RemoveConnection(server, ws)
    /\ UnchangedSimulation

\* receive_text returns a control message (main.py:51-63)
ReceiveControl(ws, action) ==
    /\ server.handlers[ws] = "receiving"
    /\ server.steps < MaxMessages
    /\ server' = Control([server EXCEPT !.steps = @ + 1], ws, action)
    /\ UnchangedSimulation

\* receive_text returns a set_speed message (main.py:65-66)
ReceiveSetSpeed(ws, value) ==
    /\ server.handlers[ws] = "receiving"
    /\ server.steps < MaxMessages
    /\ server' = [server EXCEPT !.steps = @ + 1, !.simulation_state.speed = value]
    /\ UnchangedSimulation

\* receive_text returns a stimulate message (main.py:68-70)
ReceiveStimulate(ws) ==
    /\ server.handlers[ws] = "receiving"
    /\ server.steps < MaxMessages
    /\ server' = broadcast_state([server EXCEPT !.steps = @ + 1], ws)
    /\ UnchangedSimulation

\* the sleep of simulation_loop returns while running is set (main.py:104-107)
LoopWake ==
    /\ server.loop = "sleeping"
    /\ server.simulation_state.running
    /\ server.steps < MaxMessages
    /\ server' = broadcast_state([server EXCEPT !.steps = @ + 1,
                                                !.simulation_state.tick = @ + 1],
                                 "loop")
    /\ UnchangedSimulation

\* the send_text a broadcast_state call awaits returns or raises, and the
\* for loop goes on (main.py:95-99)
SendReturns(t) ==
    /\ server.broadcasts[t].phase = "sending"
    /\ server' = BroadcastNext(server, t)
    /\ UnchangedSimulation

NextServer ==
    \/ \E ws \in WebSockets : Accept(ws)
    \/ \E ws \in WebSockets : Disconnect(ws)
    \/ \E ws \in WebSockets, action \in ControlActions : ReceiveControl(ws, action)
    \/ \E ws \in WebSockets, value \in SpeedValues : ReceiveSetSpeed(ws, value)
    \/ \E ws \in WebSockets : ReceiveStimulate(ws)
    \/ LoopWake
    \/ \E t \in Tasks : SendReturns(t)

InitServer == InitNetwork /\ connections = <<>>

SpecServer == InitServer /\ [][NextServer]_vars

\* C25: every websocket that is in connections for the whole of one
\* broadcast_state call is sent the state of that call exactly once, whatever
\* the websocket handlers append to or remove from connections while the
\* call is suspended at one of its awaits
C25_EveryClientOnce ==
    \A t \in Tasks :
        server.broadcasts[t].phase = "done" =>
            \A ws \in server.broadcasts[t].present :
                Occurrences(server.broadcasts[t].sent, ws) = 1

\* what no interleaving breaks: no websocket is sent the state of one call
\* twice, and only websockets that were in connections are sent to
C25_AtMostOnce ==
    \A t \in Tasks :
        \A ws \in WebSockets :
            Occurrences(server.broadcasts[t].sent, ws) <= 1

\* a finished call that no removal interleaved with has sent to every
\* websocket in connections at the call
C25_QuietBroadcast ==
    \E t \in Tasks :
        /\ server.broadcasts[t].phase = "done"
        /\ Cardinality(server.broadcasts[t].present) >= 2
        /\ \A ws \in server.broadcasts[t].present :
               Occurrences(server.broadcasts[t].sent, ws) = 1

====
